---------------------------- MODULE Spec2Model ----------------------------
(***************************************************************************)
(* A model of the AML fraud-detection server: the SQLite ledger (users,    *)
(* transactions), TransactionService.create_transaction executed statement *)
(* by statement by concurrent request threads, the risk scorer it calls,   *)
(* and the admin endpoints that change account and transaction status.     *)
(*                                                                         *)
(* Conventions.  Amounts and balances are whole currency units.  Risk      *)
(* scores are in units of 1/10000 (risk_probability is rounded to four     *)
(* places by detect_fraud).  Time is in hours; the server's local clock    *)
(* and SQLite's 'now' are taken to agree.  A transaction_id "TX%06d" is    *)
(* modelled by the number it prints, the format being injective.           *)
(***************************************************************************)
EXTENDS Integers, Sequences, FiniteSets, TLC

VARIABLES
    users,          \* table users: user_id -> [status, balance, risk_score]
    transactions,   \* table transactions, in rowid order
    now,            \* the clock, in hours
    calls,          \* per request thread: the create_transaction call it runs
    ncalls,         \* number of create_transaction calls started so far
    nadmin,         \* number of admin requests served so far
    seed,           \* history: the ledger the server started from
    appeals,        \* table appeals, in id order
    nappeal,        \* number of appeal requests served so far
    reply,          \* the response to the last appeal or network request
    walk,           \* the graph traversal in progress, statement by statement
    utc_offset      \* hours by which the server's local time is ahead of UTC

dbVars == <<users, transactions>>
vars == <<users, transactions, now, calls, ncalls, nadmin, seed,
          appeals, nappeal, reply, walk, utc_offset>>

-----------------------------------------------------------------------------
(* Bounds of the model *)

\* create_transaction requests, admin requests and clock ticks in a run.
MaxCalls == 2
MaxAdmin == 1
MaxTicks == 1

\* Appeal requests in a run.
MaxAppeals == 3
MaxQueries == 2
MaxCreates == 2
ClockEnd == 50

\* The request threads.
Procs == {1, 2}

\* Account ids the requests may name; "Z" is never created.
UserIds == {"A", "B", "Z"}

\* The (source, target) pairs the requests may name: transfers both ways, a
\* self-transfer, a missing source and a missing target.
Routes == {<<"A", "B">>, <<"B", "A">>, <<"A", "A">>, <<"Z", "A">>, <<"A", "Z">>}

\* Amounts the requests may carry.
Amounts == {600, 9700, 50000, 50001}
NonPositiveAmounts == {0, -600}


\* Transaction ids an admin request may name: the first row of a seeded
\* ledger and the rows the requests add to it.
TransactionIds == {1} \cup {n + k : n \in {0, 2, 11}, k \in 1..MaxCalls}

-----------------------------------------------------------------------------
(* Program constants *)

StructLow == 9000
StructHigh == 9999
LargeAmount == 50000
RiskThreshold == 7000
StructuringLimit == 2
VelocityLimit == 10
StructuringWindow == 48
VelocityWindow == 24
SubgraphDepth == 2
DepthMin == 1
DepthMax == 3
MaxRingDepth == 6
MinRingPath == 3
StartLimit == 50
RingLimit == 20
HasPathDepth == 5
SmurfingAmount == 3000
SmurfingCount == 5
PatternStructuringCount == 2
PatternVelocityCount == 10
CriticalRisk == 8000
HighRisk == 6000
MediumRisk == 4000

\* The clock advances one velocity window at a time.
TickHours == VelocityWindow

NoRow == [status |-> "MISSING", balance |-> 0, risk_score |-> 0]

\* reviewed_at of an appeal that has not been reviewed (SQL NULL).
NULL == -1

\* No response yet.
NoReply == [op |-> "-", user_id |-> "-", depth |-> 0, outcome |-> "-",
            nodes |-> {}, links |-> << >>, rings |-> << >>,
            risk_probability |-> 0, risk_level |-> "-", primary_flag |-> "-",
            seq |-> 0, ledger |-> << >>]

-----------------------------------------------------------------------------
(* Ledger store *)

\* SQLiteConnector.get_user_by_id
get_user_by_id(user_id) ==
    IF user_id \in DOMAIN users THEN users[user_id] ELSE NoRow

\* A lookup that takes the absence of a row for a row (faulty variant).
Found_always(row) == TRUE

\* "if not source_user", "if not target_user", "if not user"
Found(row) == row # NoRow

\* SQLiteConnector.update_user_status: UPDATE users SET status WHERE user_id
update_user_status(us, user_id, status) ==
    IF user_id \in DOMAIN us
    THEN [us EXCEPT ![user_id].status = status]
    ELSE us

SeqToSet(s) == {s[i] : i \in 1..Len(s)}

\* SQLite's datetime('now'): the UTC time, while now is the reading of the
\* server's local clock (datetime.now() of add_transaction).
utc_now == now - utc_offset

\* SQLiteConnector.get_user_transactions_in_window: indices of the rows
\* with the user as source or target and
\* timestamp >= datetime('now', '-hours hours').  timestamp was written as
\* the local time of the insert.
get_user_transactions_in_window(user_id, hours) ==
    {i \in 1..Len(transactions) :
        /\ (transactions[i].source_user_id = user_id
            \/ transactions[i].target_user_id = user_id)
        /\ transactions[i].timestamp >= utc_now - hours}

-----------------------------------------------------------------------------
(* Subgraph extractor and risk scorer *)

\* A neighbour query that follows transactions forwards only (faulty
\* variant).
Neighbors_outgoing(layer) ==
    {transactions[i].target_user_id : i \in
        {j \in 1..Len(transactions) : transactions[j].source_user_id \in layer}}

\* The neighbour query of get_user_subgraph: targets of rows whose source is
\* in the layer, united with sources of rows whose target is in the layer.
Neighbors(layer) ==
    {transactions[i].target_user_id : i \in
        {j \in 1..Len(transactions) : transactions[j].source_user_id \in layer}}
    \cup
    {transactions[i].source_user_id : i \in
        {j \in 1..Len(transactions) : transactions[j].target_user_id \in layer}}

\* The loop "for _ in range(depth)" of get_user_subgraph.
RECURSIVE Layers(_, _, _)
Layers(visited, current_layer, depth) ==
    IF depth <= 0 THEN visited
    ELSE LET next_layer == Neighbors(current_layer) \ visited
         IN  Layers(visited \cup next_layer, next_layer, depth - 1)

\* A traversal that keeps only the last layer (faulty variant).
RECURSIVE LastLayer(_, _, _)
LastLayer(visited, current_layer, depth) ==
    IF depth <= 0 THEN current_layer
    ELSE LET next_layer == Neighbors(current_layer) \ visited
         IN  LastLayer(visited \cup next_layer, next_layer, depth - 1)

SubgraphVisited_last(user_id, depth) == LastLayer({user_id}, {user_id}, depth)

\* visited after the loop, starting from {user_id}.
SubgraphVisited(user_id, depth) == Layers({user_id}, {user_id}, depth)

\* get_user_subgraph(...)["nodes"]: the visited ids that have a users row.
SubgraphNodes(user_id, depth) ==
    SubgraphVisited(user_id, depth) \cap DOMAIN users

\* get_user_subgraph(...)["links"]: the rows with both endpoints visited.
SubgraphLinks(user_id, depth) ==
    LET visited == SubgraphVisited(user_id, depth)
    IN  {i \in 1..Len(transactions) :
            /\ transactions[i].source_user_id \in visited
            /\ transactions[i].target_user_id \in visited}

\* The list built by "for row in c.fetchall(): links.append(...)": the rows
\* of the link query in rowid order, each named by its position in the table.
RECURSIVE LinkRows(_, _)
LinkRows(visited, n) ==
    IF n = 0 THEN << >>
    ELSE LET rest == LinkRows(visited, n - 1)
         IN  IF /\ transactions[n].source_user_id \in visited
                /\ transactions[n].target_user_id \in visited
             THEN Append(rest, n)
             ELSE rest

SubgraphLinkList(user_id, depth) ==
    LinkRows(SubgraphVisited(user_id, depth), Len(transactions))

\* sum(neighbor_risks)
RECURSIVE SumRisk(_)
SumRisk(S) ==
    IF S = {} THEN 0
    ELSE LET x == CHOOSE y \in S : TRUE
         IN  users[x].risk_score + SumRisk(S \ {x})

Min(a, b) == IF a <= b THEN a ELSE b
Max(a, b) == IF a >= b THEN a ELSE b

RECURSIVE MaxAmount(_)
MaxAmount(S) ==
    IF S = {} THEN 0
    ELSE LET x == CHOOSE y \in S : TRUE
         IN  Max(transactions[x].amount, MaxAmount(S \ {x}))

InStructuringRange(amount) == StructLow <= amount /\ amount <= StructHigh

\* FraudService._calculate_risk_score:
\* 0.3 base + 0.25 avg_neighbor + 0.15 (volume + high_value + structuring),
\* clamped to [0, 1]; computed exactly as the fraction num / den in units
\* of 1/10000, with den = 200 n.
risk_fraction(user_id, user, nodes, links) ==
    LET neighbors == nodes \ {user_id}
        n == IF neighbors = {} THEN 1 ELSE Cardinality(neighbors)
        sum_risk == IF neighbors = {} THEN 5000 ELSE SumRisk(neighbors)
        user_txs == {i \in links : transactions[i].source_user_id = user_id
                                   \/ transactions[i].target_user_id = user_id}
        tx_count == Min(Cardinality(user_txs), 20)
        max_amount == Min(MaxAmount(user_txs), 100000)
        structuring_count ==
            Min(Cardinality({i \in user_txs :
                                InStructuringRange(transactions[i].amount)}), 3)
        num == 60 * n * user.risk_score + 50 * sum_risk
               + 200 * n * (75 * tx_count + 500 * structuring_count)
               + 3 * n * max_amount
    IN  [num |-> Min(Max(num, 0), 10000 * 200 * n), den |-> 200 * n]

\* round(risk_score, 4) of the score of _calculate_risk_score, in units of
\* 1/10000.
calculate_risk_score(user_id, user, nodes, links) ==
    LET risk_score == risk_fraction(user_id, user, nodes, links)
    IN  (2 * risk_score.num + risk_score.den) \div (2 * risk_score.den)

\* FraudService.detect_fraud(user_id)["risk_probability"]
detect_fraud(user_id) ==
    calculate_risk_score(user_id, get_user_by_id(user_id),
                         SubgraphNodes(user_id, SubgraphDepth),
                         SubgraphLinks(user_id, SubgraphDepth))

\* risk_score of detect_fraud before it is rounded.
detect_fraud_score(user_id) ==
    risk_fraction(user_id, get_user_by_id(user_id),
                  SubgraphNodes(user_id, SubgraphDepth),
                  SubgraphLinks(user_id, SubgraphDepth))

-----------------------------------------------------------------------------
(* Policy engine *)

\* TransactionService._detect_structuring
detect_structuring(user_id, current_amount) ==
    LET recent_txs == get_user_transactions_in_window(user_id, StructuringWindow)
        in_range == Cardinality({i \in recent_txs :
                                    InStructuringRange(transactions[i].amount)})
        structuring_count ==
            in_range + (IF InStructuringRange(current_amount) THEN 1 ELSE 0)
    IN  structuring_count > StructuringLimit

\* TransactionService._detect_high_velocity
detect_high_velocity(user_id) ==
    Cardinality(get_user_transactions_in_window(user_id, VelocityWindow))
        > VelocityLimit

-----------------------------------------------------------------------------
(* Transaction processor: TransactionService.create_transaction *)

\* A frozen check that looks for the wrong status (faulty variant).
IsFrozen_blocked(source_user) == source_user.status = "BLOCKED"

\* A frozen check that stops every account that is not ACTIVE (faulty
\* variant).
IsFrozen_inactive(source_user) == source_user.status # "ACTIVE"

\* The frozen check (line 36).
IsFrozen(source_user) == source_user.status = "FROZEN"

\* Balance checks with the comparison reversed, and with an overdraft
\* allowance (faulty variants).
InsufficientBalance_reversed(source_user, amount) ==
    source_user.balance > amount
InsufficientBalance_lenient(source_user, amount) ==
    source_user.balance + LargeAmount < amount

\* The balance check (lines 40-41).
InsufficientBalance(source_user, amount) == source_user.balance < amount

\* should_flag with the large-amount bound included (faulty variant).
ShouldFlag_ge(structuring_detected, high_velocity, amount, ai_risk_score) ==
    \/ structuring_detected
    \/ high_velocity
    \/ InStructuringRange(amount)
    \/ amount >= LargeAmount
    \/ ai_risk_score > RiskThreshold

\* should_flag (lines 61-67).
ShouldFlag(structuring_detected, high_velocity, amount, ai_risk_score) ==
    \/ structuring_detected
    \/ high_velocity
    \/ InStructuringRange(amount)
    \/ amount > LargeAmount
    \/ ai_risk_score > RiskThreshold

\* The status decision (lines 72-78).
DecideStatus(structuring_detected, should_flag) ==
    IF structuring_detected THEN "BLOCKED"
    ELSE IF should_flag THEN "FLAGGED"
    ELSE "APPROVED"

\* The locals of a call that has not started.
IdleCall ==
    [pc |-> "idle", source_user_id |-> "-", target_user_id |-> "-",
     amount |-> 0, source_user |-> NoRow, target_user |-> NoRow,
     ai_risk_score |-> 0, structuring_detected |-> FALSE,
     high_velocity |-> FALSE, should_flag |-> FALSE, status |-> "-",
     count |-> 0, tx_id |-> 0, outcome |-> "-", scorer_failed |-> FALSE]

Finished(c) == c.pc = "idle"

Return(c, outcome) == [c EXCEPT !.pc = "done", !.outcome = outcome]

\* A request thread takes a POST /transactions request.
Begin(p, source_user_id, target_user_id, amount) ==
    /\ calls[p].pc = "idle"
    /\ ncalls < MaxCalls
    /\ ncalls' = ncalls + 1
    /\ calls' = [calls EXCEPT ![p] =
                    [IdleCall EXCEPT !.pc = "get_source",
                                     !.source_user_id = source_user_id,
                                     !.target_user_id = target_user_id,
                                     !.amount = amount]]
    /\ UNCHANGED <<users, transactions, now, nadmin, seed,
                 appeals, nappeal, reply, walk,
                 utc_offset>>

\* Lines 26-28: read the source row.
GetSource(p) ==
    LET c == calls[p]
        source_user == get_user_by_id(c.source_user_id)
    IN  /\ c.pc = "get_source"
        /\ calls' = [calls EXCEPT ![p] =
                IF ~Found(source_user) THEN Return(c, "NotFound")
                ELSE [c EXCEPT !.pc = "get_target",
                               !.source_user = source_user]]
        /\ UNCHANGED <<users, transactions, now, ncalls, nadmin, seed,
                 appeals, nappeal, reply, walk,
                 utc_offset>>

\* Lines 31-42: read the target row, then the frozen and balance checks on
\* the source row read before.
GetTarget(p) ==
    LET c == calls[p]
        target_user == get_user_by_id(c.target_user_id)
    IN  /\ c.pc = "get_target"
        /\ calls' = [calls EXCEPT ![p] =
                IF ~Found(target_user) THEN Return(c, "NotFound")
                ELSE IF IsFrozen(c.source_user)
                    THEN Return([c EXCEPT !.target_user = target_user],
                                "InvalidState")
                ELSE IF InsufficientBalance(c.source_user, c.amount)
                    THEN Return([c EXCEPT !.target_user = target_user],
                                "InsufficientFunds")
                ELSE [c EXCEPT !.pc = "pre_check",
                               !.target_user = target_user]]
        /\ UNCHANGED <<users, transactions, now, ncalls, nadmin, seed,
                 appeals, nappeal, reply, walk,
                 utc_offset>>

\* Lines 45-52: the risk pre-check; when detect_fraud raises, the score is
\* the risk_score of the source row read at line 26.
PreCheck(p) ==
    LET c == calls[p]
    IN  /\ c.pc = "pre_check"
        /\ \E scorer_fails \in BOOLEAN :
              calls' = [calls EXCEPT ![p] =
                  [c EXCEPT !.pc = "structuring",
                            !.scorer_failed = scorer_fails,
                            !.ai_risk_score =
                                IF scorer_fails THEN c.source_user.risk_score
                                ELSE detect_fraud(c.source_user_id)]]
        /\ UNCHANGED <<users, transactions, now, ncalls, nadmin, seed,
                 appeals, nappeal, reply, walk,
                 utc_offset>>

\* Line 55.
DetectStructuring(p) ==
    LET c == calls[p]
    IN  /\ c.pc = "structuring"
        /\ calls' = [calls EXCEPT ![p] =
              [c EXCEPT !.pc = "velocity",
                        !.structuring_detected =
                            detect_structuring(c.source_user_id, c.amount)]]
        /\ UNCHANGED <<users, transactions, now, ncalls, nadmin, seed,
                 appeals, nappeal, reply, walk,
                 utc_offset>>

\* Lines 58-78 without the write of line 74: the velocity read, should_flag
\* and the status.
DetectVelocity(p) ==
    LET c == calls[p]
        high_velocity == detect_high_velocity(c.source_user_id)
        should_flag == ShouldFlag(c.structuring_detected, high_velocity,
                                  c.amount, c.ai_risk_score)
    IN  /\ c.pc = "velocity"
        /\ calls' = [calls EXCEPT ![p] =
              [c EXCEPT !.pc = IF c.structuring_detected THEN "freeze"
                               ELSE "add_count",
                        !.high_velocity = high_velocity,
                        !.should_flag = should_flag,
                        !.status = DecideStatus(c.structuring_detected,
                                                should_flag)]]
        /\ UNCHANGED <<users, transactions, now, ncalls, nadmin, seed,
                 appeals, nappeal, reply, walk,
                 utc_offset>>

\* Line 74: update_user_status(source_user_id, 'FROZEN').
Freeze(p) ==
    LET c == calls[p]
    IN  /\ c.pc = "freeze"
        /\ users' = update_user_status(users, c.source_user_id, "FROZEN")
        /\ calls' = [calls EXCEPT ![p] = [c EXCEPT !.pc = "add_count"]]
        /\ UNCHANGED <<transactions, now, ncalls, nadmin, seed,
                 appeals, nappeal, reply, walk,
                 utc_offset>>

\* add_transaction, lines 160-162: SELECT COUNT(*) and the id made of it.
AddCount(p) ==
    LET c == calls[p]
        count == Len(transactions)
    IN  /\ c.pc = "add_count"
        /\ calls' = [calls EXCEPT ![p] =
              [c EXCEPT !.pc = "add_insert", !.count = count,
                        !.tx_id = count + 1]]
        /\ UNCHANGED <<users, transactions, now, ncalls, nadmin, seed,
                 appeals, nappeal, reply, walk,
                 utc_offset>>

\* A suspicion flag that is always set (faulty variant).
is_suspicious_set(should_flag) == 1

\* Line 69: is_suspicious = 1 if should_flag else 0.
is_suspicious(should_flag) == IF should_flag THEN 1 ELSE 0

\* The row add_transaction inserts (lines 164-170).
NewRow(c) ==
    [transaction_id |-> c.tx_id,
     source_user_id |-> c.source_user_id,
     target_user_id |-> c.target_user_id,
     amount |-> c.amount,
     timestamp |-> now,
     status |-> c.status,
     is_suspicious |-> is_suspicious(c.should_flag),
     ai_risk_score |-> c.ai_risk_score]

\* transaction_id TEXT UNIQUE
IdTaken(tx_id) == \E i \in 1..Len(transactions) :
                      transactions[i].transaction_id = tx_id

\* add_transaction, lines 164-173: the INSERT and its commit.  A taken
\* transaction_id makes the INSERT raise, which ends the request with an
\* error before anything else is written.
AddInsert(p) ==
    LET c == calls[p]
    IN  /\ c.pc = "add_insert"
        /\ IF IdTaken(c.tx_id)
           THEN /\ calls' = [calls EXCEPT ![p] = Return(c, "InternalError")]
                /\ UNCHANGED transactions
           ELSE /\ transactions' = Append(transactions, NewRow(c))
                /\ calls' = [calls EXCEPT ![p] =
                      IF c.status = "APPROVED"
                      THEN [c EXCEPT !.pc = "balance"]
                      ELSE Return(c, "OK")]
        /\ UNCHANGED <<users, now, ncalls, nadmin, seed,
                 appeals, nappeal, reply, walk,
                 utc_offset>>

\* A debit that is not applied (faulty variant).
new_source_balance_kept(c) == c.source_user.balance

\* Lines 98-99 and 103-104: the balances written are computed from the rows
\* read at lines 26 and 31.
new_source_balance(c) == c.source_user.balance - c.amount

\* A credit that is not applied (faulty variant).
new_target_balance_kept(c) == c.target_user.balance

new_target_balance(c) == c.target_user.balance + c.amount

\* Lines 100 and 105: UPDATE users SET balance = ? WHERE user_id = ?
set_balance(us, user_id, balance) ==
    IF user_id \in DOMAIN us
    THEN [us EXCEPT ![user_id].balance = balance]
    ELSE us

\* Lines 93-108: the two UPDATEs, in order, and their one commit.
UpdateBalances(p) ==
    LET c == calls[p]
    IN  /\ c.pc = "balance"
        /\ users' = set_balance(
                        set_balance(users, c.source_user_id,
                                    new_source_balance(c)),
                        c.target_user_id, new_target_balance(c))
        /\ calls' = [calls EXCEPT ![p] = Return(c, "OK")]
        /\ UNCHANGED <<transactions, now, ncalls, nadmin, seed,
                 appeals, nappeal, reply, walk,
                 utc_offset>>

\* A response that always reports the debited balance (faulty variant).
new_balance_debited(c) == new_source_balance(c)

\* Line 120, "new_balance" of the response: the debited balance if the
\* status is APPROVED, else the balance of the source row read at line 26.
new_balance(c) ==
    IF c.status = "APPROVED" THEN new_source_balance(c)
    ELSE c.source_user.balance

\* The response is sent and the thread is free for the next request.
Respond(p) ==
    /\ calls[p].pc = "done"
    /\ calls' = [calls EXCEPT ![p] = IdleCall]
    /\ UNCHANGED <<users, transactions, now, ncalls, nadmin, seed,
                 appeals, nappeal, reply, walk,
                 utc_offset>>

-----------------------------------------------------------------------------
(* Admin endpoints *)

\* An approval that writes FLAGGED (faulty variant).
approved_rows_flagged(txs, transaction_id) ==
    [i \in 1..Len(txs) |->
        IF txs[i].transaction_id = transaction_id
        THEN [txs[i] EXCEPT !.status = "FLAGGED"]
        ELSE txs[i]]

\* The UPDATE of approve_transaction: SET status = 'APPROVED' WHERE
\* transaction_id = ?
approved_rows(txs, transaction_id) ==
    [i \in 1..Len(txs) |->
        IF txs[i].transaction_id = transaction_id
        THEN [txs[i] EXCEPT !.status = "APPROVED"]
        ELSE txs[i]]

\* approve_transaction.  (A request that changes no row is left out: it is a
\* stuttering step.)
approve_transaction(transaction_id) ==
    /\ transactions' = approved_rows(transactions, transaction_id)
    /\ transactions' # transactions
    /\ nadmin < MaxAdmin
    /\ nadmin' = nadmin + 1
    /\ UNCHANGED <<users, now, calls, ncalls, seed,
                 appeals, nappeal, reply, walk,
                 utc_offset>>

\* freeze_user, unfreeze_user, block_user: 404 without a users row, else
\* update_user_status.
SetStatus(user_id, status) ==
    /\ Found(get_user_by_id(user_id))
    /\ users' = update_user_status(users, user_id, status)
    /\ users' # users
    /\ nadmin < MaxAdmin
    /\ nadmin' = nadmin + 1
    /\ UNCHANGED <<transactions, now, calls, ncalls, seed,
                 appeals, nappeal, reply, walk,
                 utc_offset>>

freeze_user(user_id) == SetStatus(user_id, "FROZEN")
unfreeze_user(user_id) == SetStatus(user_id, "ACTIVE")
block_user(user_id) == SetStatus(user_id, "BLOCKED")

-----------------------------------------------------------------------------
(* User creation *)

\* risk_score a POST /users request may carry (the default and a high one).
NewRiskScores == {5000, 9000}

\* SQLiteConnector.add_user with the default balance and status: INSERT OR
\* REPLACE on the primary key user_id, so a row with that id is replaced.
add_user(us, user_id, risk_score) ==
    [u \in DOMAIN us \cup {user_id} |->
        IF u = user_id
        THEN [status |-> "ACTIVE", balance |-> 0, risk_score |-> risk_score]
        ELSE us[u]]

\* POST /users: calls add_user and answers "User created".  seq numbers the
\* answers.
create_user(user_id, risk_score) ==
    /\ reply.seq < MaxCreates
    /\ users' = add_user(users, user_id, risk_score)
    /\ reply' = [NoReply EXCEPT !.op = "create_user", !.user_id = user_id,
                                !.outcome = "OK", !.seq = reply.seq + 1]
    /\ UNCHANGED <<transactions, now, calls, ncalls, nadmin, seed,
                   appeals, nappeal, walk,
                 utc_offset>>

-----------------------------------------------------------------------------
(* Appeal endpoints *)

\* SQLite admits one write transaction at a time.  A statement that writes
\* through a connection while another connection holds an open write
\* transaction waits for the busy timeout (sqlite3.connect's default, 5 s)
\* and then raises OperationalError("database is locked").
CanWrite(open_write_transactions) == open_write_transactions = 0

Respond2(op, user_id, outcome) ==
    [NoReply EXCEPT !.op = op, !.user_id = user_id, !.outcome = outcome]

\* The appeals row inserted by submit_appeal.
NewAppeal(user_id) ==
    [user_id |-> user_id, status |-> "PENDING", created_at |-> now,
     reviewed_at |-> NULL]

\* A resolution that sets no review timestamp (faulty variant).
resolved_appeals_unstamped(as, user_id, status) ==
    [i \in 1..Len(as) |->
        IF as[i].user_id = user_id /\ as[i].status = "PENDING"
        THEN [as[i] EXCEPT !.status = status]
        ELSE as[i]]

\* UPDATE appeals SET status = ?, reviewed_at = CURRENT_TIMESTAMP
\* WHERE user_id = ? AND status = 'PENDING'
resolved_appeals(as, user_id, status) ==
    [i \in 1..Len(as) |->
        IF as[i].user_id = user_id /\ as[i].status = "PENDING"
        THEN [as[i] EXCEPT !.status = status, !.reviewed_at = now]
        ELSE as[i]]

\* submit_appeal: 404 without a users row, else INSERT and commit.
submit_appeal(user_id) ==
    /\ nappeal < MaxAppeals
    /\ nappeal' = nappeal + 1
    /\ IF ~Found(get_user_by_id(user_id))
       THEN /\ reply' = Respond2("submit_appeal", user_id, "NotFound")
            /\ UNCHANGED appeals
       ELSE /\ CanWrite(0)
            /\ appeals' = Append(appeals, NewAppeal(user_id))
            /\ reply' = Respond2("submit_appeal", user_id, "OK")
    /\ UNCHANGED <<users, transactions, now, calls, ncalls, nadmin, seed, walk,
                 utc_offset>>

\* approve_appeal: 404 without a users row; else the UPDATE of appeals is
\* executed on the handler's connection, which opens a write transaction,
\* and update_user_status then writes through a connection of its own
\* before the handler commits.  When that write raises, the handler answers
\* 500 and its connection is dropped uncommitted, which rolls the UPDATE of
\* appeals back.
approve_appeal(user_id) ==
    /\ nappeal < MaxAppeals
    /\ nappeal' = nappeal + 1
    /\ IF ~Found(get_user_by_id(user_id))
       THEN /\ reply' = Respond2("approve_appeal", user_id, "NotFound")
            /\ UNCHANGED <<appeals, users>>
       ELSE IF CanWrite(1)
       THEN /\ appeals' = resolved_appeals(appeals, user_id, "APPROVED")
            /\ users' = update_user_status(users, user_id, "ACTIVE")
            /\ reply' = Respond2("approve_appeal", user_id, "OK")
       ELSE /\ reply' = Respond2("approve_appeal", user_id, "InternalError")
            /\ UNCHANGED <<appeals, users>>
    /\ UNCHANGED <<transactions, now, calls, ncalls, nadmin, seed, walk,
                 utc_offset>>

\* reject_appeal: 404 without a users row, else the UPDATE and commit.
reject_appeal(user_id) ==
    /\ nappeal < MaxAppeals
    /\ nappeal' = nappeal + 1
    /\ IF ~Found(get_user_by_id(user_id))
       THEN /\ reply' = Respond2("reject_appeal", user_id, "NotFound")
            /\ UNCHANGED appeals
       ELSE /\ CanWrite(0)
            /\ appeals' = resolved_appeals(appeals, user_id, "REJECTED")
            /\ reply' = Respond2("reject_appeal", user_id, "OK")
    /\ UNCHANGED <<users, transactions, now, calls, ncalls, nadmin, seed, walk,
                 utc_offset>>

-----------------------------------------------------------------------------
(* Ring detector: SQLiteConnector.find_laundering_rings *)

\* s[:n]
Take(s, n) == SubSeq(s, 1, Min(Len(s), n))

\* list(adj.keys()): the sources of the transactions, each once, in the
\* order of their first row.
RECURSIVE AdjKeys(_)
AdjKeys(n) ==
    IF n = 0 THEN << >>
    ELSE LET rest == AdjKeys(n - 1)
             src == transactions[n].source_user_id
         IN  IF src \in SeqToSet(rest) THEN rest ELSE Append(rest, src)

\* A closing test that accepts a path of two accounts (faulty variant).
ClosesRing_short(neighbor, start, path) == neighbor = start /\ Len(path) >= 2

\* A closing test that wants a path of four accounts (faulty variant).
ClosesRing_long(neighbor, start, path) == neighbor = start /\ Len(path) > MinRingPath

\* "neighbor == start and len(path) >= 3"
ClosesRing(neighbor, start, path) ==
    neighbor = start /\ Len(path) >= MinRingPath

\* adj[src]: the targets of the transactions sent by src, in table order.
SentBy(src, row) == row.source_user_id = src

adj(src) ==
    LET rows == SelectSeq(transactions, LAMBDA row : SentBy(src, row))
    IN  [k \in 1..Len(rows) |-> rows[k].target_user_id]

\* dfs(start, current, path, visited, depth): the paths it appends to rings
\* while it goes through adj[current] from entry i on.
RECURSIVE dfs(_, _, _, _, _, _)
dfs(start, current, path, visited, depth, i) ==
    LET edges == adj(current)
    IN  IF depth > MaxRingDepth \/ i > Len(edges) THEN << >>
        ELSE LET neighbor == edges[i]
                 found ==
                     IF ClosesRing(neighbor, start, path) THEN <<path>>
                     ELSE IF neighbor \notin visited
                     THEN dfs(start, neighbor, Append(path, neighbor),
                              visited \cup {neighbor}, depth + 1, 1)
                     ELSE << >>
             IN  found \o dfs(start, current, path, visited, depth, i + 1)

\* "for start_node in list(adj.keys())[:50]: dfs(...)": rings after the
\* first k start nodes.
RECURSIVE RingsFrom(_, _)
RingsFrom(starts, k) ==
    IF k = 0 THEN << >>
    ELSE RingsFrom(starts, k - 1)
         \o dfs(starts[k], starts[k], <<starts[k]>>, {starts[k]}, 0, 1)

discovered_rings ==
    LET starts == Take(AdjKeys(Len(transactions)), StartLimit)
    IN  RingsFrom(starts, Len(starts))

\* A key that keeps the order of the path (faulty variant).
path_ids_ordered(ring) == ring

\* tuple(sorted(ids of the path)): two paths have the same key exactly when
\* they hold the same ids the same number of times; it is modelled by the
\* function counting each id.
path_ids(ring) ==
    [u \in SeqToSet(ring) |-> Cardinality({k \in 1..Len(ring) : ring[k] = u})]

\* The loop that removes duplicate rings, run over rings[lo..hi] with the
\* list unique built so far: a ring is appended when no ring of the list has
\* its key (the keys of the list are the set seen).  A range of several
\* rings is run as its first half followed by its second half.
RECURSIVE unique_rings(_, _, _, _)
unique_rings(rings, lo, hi, unique) ==
    IF lo > hi THEN unique
    ELSE IF lo = hi
    THEN IF \E j \in 1..Len(unique) : path_ids(unique[j]) = path_ids(rings[lo])
         THEN unique
         ELSE Append(unique, rings[lo])
    ELSE LET mid == (lo + hi) \div 2
             first_half == unique_rings(rings, lo, mid, unique)
         IN  \* the first half is finished before the second half starts
             CASE Len(first_half) >= 0 ->
                    unique_rings(rings, mid + 1, hi, first_half)

find_laundering_rings ==
    LET rings == discovered_rings
    IN  Take(unique_rings(rings, 1, Len(rings), << >>), RingLimit)

\* get_laundering_rings: returns find_laundering_rings().
get_laundering_rings ==
    /\ reply' = [NoReply EXCEPT !.op = "get_laundering_rings",
                                !.outcome = "OK",
                                !.rings = find_laundering_rings]
    /\ reply' # reply
    /\ UNCHANGED <<users, transactions, now, calls, ncalls, nadmin, seed,
                   appeals, nappeal, walk,
                 utc_offset>>

-----------------------------------------------------------------------------
(* Network endpoint *)

\* SQLiteConnector.get_user_subgraph: it has no error exit.
get_user_subgraph(user_id, depth) ==
    [outcome |-> "OK",
     nodes |-> SubgraphNodes(user_id, depth),
     links |-> SubgraphLinkList(user_id, depth)]

\* A network handler that does not look the account up (faulty variant).
get_user_network_unchecked(user_id, depth) ==
    LET subgraph == get_user_subgraph(user_id, depth)
    IN  /\ reply' = [NoReply EXCEPT !.op = "get_user_network",
                                    !.user_id = user_id, !.depth = depth,
                                    !.outcome = subgraph.outcome,
                                    !.nodes = subgraph.nodes,
                                    !.links = subgraph.links]
        /\ reply' # reply
        /\ UNCHANGED <<users, transactions, now, calls, ncalls, nadmin, seed,
                       appeals, nappeal, walk,
                 utc_offset>>

\* get_user_network: depth is validated by Query(2, ge=1, le=3) before the
\* handler runs (422); the handler answers 404 without a users row and else
\* returns get_user_subgraph(user_id, depth).
get_user_network(user_id, depth) ==
    LET subgraph == get_user_subgraph(user_id, depth)
        answer == [NoReply EXCEPT !.op = "get_user_network",
                                  !.user_id = user_id, !.depth = depth]
    IN  /\ reply' =
              IF depth < DepthMin \/ depth > DepthMax
              THEN [answer EXCEPT !.outcome = "InvalidArgument"]
              ELSE IF ~Found(get_user_by_id(user_id))
              THEN [answer EXCEPT !.outcome = "NotFound"]
              ELSE [answer EXCEPT !.outcome = subgraph.outcome,
                                  !.nodes = subgraph.nodes,
                                  !.links = subgraph.links]
        /\ reply' # reply
        /\ UNCHANGED <<users, transactions, now, calls, ncalls, nadmin, seed,
                       appeals, nappeal, walk,
                 utc_offset>>

\* Time passes.  A request is served in far less than TickHours, so the
\* clock moves between requests.
Tick ==
    /\ \A p \in Procs : calls[p].pc = "idle"
    /\ now + TickHours <= MaxTicks * TickHours
    /\ now' = now + TickHours
    /\ UNCHANGED <<users, transactions, calls, ncalls, nadmin, seed,
                 appeals, nappeal, reply, walk,
                 utc_offset>>

-----------------------------------------------------------------------------
(* Circular-flow search of FraudService._detect_patterns *)

\* adj[src] of _detect_patterns: the targets of the links sent by src; links
\* is the set of table rows that get_user_subgraph returned.
LinkAdj(links, src) ==
    {transactions[n].target_user_id :
        n \in {m \in links : transactions[m].source_user_id = src}}

\* A search that gives up one level earlier (faulty variant).
RECURSIVE has_path_short(_, _, _, _, _)
has_path_short(links, start, end, visited, depth) ==
    IF depth >= HasPathDepth THEN FALSE
    ELSE IF start = end /\ depth > 0 THEN TRUE
    ELSE \E neighbor \in LinkAdj(links, start) :
            /\ neighbor \notin visited \/ neighbor = end
            /\ has_path_short(links, neighbor, end, visited \cup {neighbor},
                              depth + 1)

\* has_path(start, end, visited, depth)
RECURSIVE has_path(_, _, _, _, _)
has_path(links, start, end, visited, depth) ==
    IF depth > HasPathDepth THEN FALSE
    ELSE IF start = end /\ depth > 0 THEN TRUE
    ELSE \E neighbor \in LinkAdj(links, start) :
            /\ neighbor \notin visited \/ neighbor = end
            /\ has_path(links, neighbor, end, visited \cup {neighbor},
                        depth + 1)

\* "if has_path(user_id, user_id, set())" on the links of the subgraph of
\* depth 2 that detect_fraud asked for.
circular_flow(user_id) ==
    has_path(SubgraphLinks(user_id, SubgraphDepth), user_id, user_id, {}, 0)

-----------------------------------------------------------------------------
(* Risk scorer: patterns, primary flag, risk level, endpoint *)

\* incoming and outgoing of _detect_patterns: the links of the subgraph of
\* depth 2 received and sent by user_id.
Incoming(user_id) ==
    {n \in SubgraphLinks(user_id, SubgraphDepth) :
        transactions[n].target_user_id = user_id}

Outgoing(user_id) ==
    {n \in SubgraphLinks(user_id, SubgraphDepth) :
        transactions[n].source_user_id = user_id}

\* "len(small_incoming) >= 5" with small_incoming the incoming links under
\* 3000.
smurfing(user_id) ==
    Cardinality({n \in Incoming(user_id) :
                    transactions[n].amount < SmurfingAmount}) >= SmurfingCount

\* "len(structured) >= 2" with structured taken from all_txs = incoming +
\* outgoing, a list in which a self-transfer stands twice.
structuring(user_id) ==
    Cardinality({n \in Incoming(user_id) :
                    InStructuringRange(transactions[n].amount)})
    + Cardinality({n \in Outgoing(user_id) :
                    InStructuringRange(transactions[n].amount)})
        >= PatternStructuringCount

\* "len(all_txs) >= 10"
high_velocity(user_id) ==
    Cardinality(Incoming(user_id)) + Cardinality(Outgoing(user_id))
        >= PatternVelocityCount

\* FraudService._get_primary_flag
get_primary_flag(user_id) ==
    IF circular_flow(user_id) THEN "Circular Flow Detected"
    ELSE IF smurfing(user_id) THEN "Smurfing Detected"
    ELSE IF structuring(user_id) THEN "Structuring Detected"
    ELSE IF high_velocity(user_id) THEN "High Transaction Velocity"
    ELSE "None"

\* A level taken from a score that grows by a tenth with every hour on the
\* clock (faulty variant).
get_risk_level_aged(score) == IF score.num + 1000 * now * score.den >= MediumRisk * score.den THEN "medium" ELSE "low"

\* FraudService._get_risk_level, applied to the score before it is rounded
\* (the fraction score.num / score.den).
get_risk_level(score) ==
    IF score.num >= CriticalRisk * score.den THEN "critical"
    ELSE IF score.num >= HighRisk * score.den THEN "high"
    ELSE IF score.num >= MediumRisk * score.den THEN "medium"
    ELSE "low"

\* GET /detect-fraud/{user_id}: 404 without a users row, else the result of
\* FraudService.detect_fraud.  seq numbers the answers; ledger is the ledger
\* the answer was computed on (history).
detect_fraud_endpoint(user_id) ==
    LET answer == [NoReply EXCEPT !.op = "detect_fraud",
                                  !.user_id = user_id,
                                  !.seq = reply.seq + 1,
                                  !.ledger = <<users, transactions>>]
    IN  /\ reply.seq < MaxQueries
        /\ reply' =
              IF ~Found(get_user_by_id(user_id))
              THEN [answer EXCEPT !.outcome = "NotFound"]
              ELSE [answer EXCEPT
                       !.outcome = "OK",
                       !.risk_probability = detect_fraud(user_id),
                       !.risk_level =
                           get_risk_level(detect_fraud_score(user_id)),
                       !.primary_flag = get_primary_flag(user_id)]
        /\ UNCHANGED <<users, transactions, now, calls, ncalls, nadmin, seed,
                       appeals, nappeal, walk,
                 utc_offset>>

-----------------------------------------------------------------------------
(* The traversals, statement by statement *)

NoWalk ==
    [op |-> "-", pc |-> "idle", user_id |-> "-", depth |-> 0,
     visited |-> {}, current_layer |-> {}, remaining |-> 0,
     stack |-> << >>, starts |-> << >>, rings |-> << >>, found |-> FALSE]

Pop(stack) == SubSeq(stack, 1, Len(stack) - 1)

Top(stack) == stack[Len(stack)]

WalkFrame ==
    UNCHANGED <<users, transactions, now, calls, ncalls, nadmin, seed,
                appeals, nappeal, reply,
                 utc_offset>>

\* A loop that never uses up its iterations (faulty variant).
remaining_after_same(remaining) == remaining

\* "for _ in range(depth)": the iterations left after one more.
remaining_after(remaining) == remaining - 1

\* get_user_subgraph is entered: visited = {user_id}, current_layer =
\* {user_id}.
BeginSubgraph(user_id, depth) ==
    /\ walk.pc # "running"
    /\ walk' = [NoWalk EXCEPT !.op = "get_user_subgraph", !.pc = "running",
                              !.user_id = user_id, !.depth = depth,
                              !.visited = {user_id},
                              !.current_layer = {user_id},
                              !.remaining = depth]
    /\ WalkFrame

\* One iteration of the loop of get_user_subgraph, or its end.
StepSubgraph ==
    /\ walk.op = "get_user_subgraph" /\ walk.pc = "running"
    /\ IF walk.remaining <= 0
       THEN walk' = [walk EXCEPT !.pc = "done"]
       ELSE LET next_layer == Neighbors(walk.current_layer) \ walk.visited
            IN  walk' = [walk EXCEPT
                            !.visited = walk.visited \cup next_layer,
                            !.current_layer = next_layer,
                            !.remaining = remaining_after(walk.remaining)]
    /\ WalkFrame

\* find_laundering_rings is entered, adj is built.
BeginRings ==
    /\ walk.pc # "running"
    /\ walk' = [NoWalk EXCEPT !.op = "find_laundering_rings",
                              !.pc = "running",
                              !.starts = Take(AdjKeys(Len(transactions)),
                                              StartLimit)]
    /\ WalkFrame

RingFrame(start, current, path, visited, depth) ==
    [start |-> start, current |-> current, path |-> path,
     visited |-> visited, depth |-> depth, i |-> 1]

\* One statement of the search of find_laundering_rings: the next start
\* node is taken, a call of dfs returns, or a call of dfs looks at its next
\* edge.
StepRings ==
    /\ walk.op = "find_laundering_rings" /\ walk.pc = "running"
    /\ IF walk.stack = << >>
       THEN IF walk.starts = << >>
            THEN walk' = [walk EXCEPT !.pc = "done"]
            ELSE LET start_node == Head(walk.starts)
                 IN  walk' = [walk EXCEPT
                        !.starts = Tail(walk.starts),
                        !.stack = <<RingFrame(start_node, start_node,
                                              <<start_node>>, {start_node},
                                              0)>>]
       ELSE LET f == Top(walk.stack)
                edges == adj(f.current)
            IN  IF f.depth > MaxRingDepth \/ f.i > Len(edges)
                THEN walk' = [walk EXCEPT !.stack = Pop(walk.stack)]
                ELSE LET neighbor == edges[f.i]
                         advanced == [walk.stack EXCEPT
                                         ![Len(walk.stack)].i = f.i + 1]
                     IN  IF ClosesRing(neighbor, f.start, f.path)
                         THEN walk' = [walk EXCEPT
                                  !.stack = advanced,
                                  !.rings = Append(walk.rings, f.path)]
                         ELSE IF neighbor \notin f.visited
                         THEN walk' = [walk EXCEPT !.stack =
                                  Append(advanced,
                                         RingFrame(f.start, neighbor,
                                                   Append(f.path, neighbor),
                                                   f.visited \cup {neighbor},
                                                   f.depth + 1))]
                         ELSE walk' = [walk EXCEPT !.stack = advanced]
    /\ WalkFrame

PathFrame(node, visited, depth) ==
    [node |-> node, visited |-> visited, depth |-> depth,
     entered |-> FALSE, todo |-> {}]

\* _detect_patterns calls has_path(user_id, user_id, set()).
BeginHasPath(user_id) ==
    /\ walk.pc # "running"
    /\ walk' = [NoWalk EXCEPT !.op = "has_path", !.pc = "running",
                              !.user_id = user_id,
                              !.stack = <<PathFrame(user_id, {}, 0)>>]
    /\ WalkFrame

\* One statement of has_path: a call is entered and checks its depth and
\* its node, or it takes the next neighbour of its loop (adj[start] is a
\* set, iterated in an order the program does not fix), or it returns.  A
\* call that returns True makes each of its callers return True.
StepHasPath ==
    /\ walk.op = "has_path" /\ walk.pc = "running"
    /\ IF walk.stack = << >>
       THEN walk' = [walk EXCEPT !.pc = "done"]
       ELSE LET f == Top(walk.stack)
                links == SubgraphLinks(walk.user_id, SubgraphDepth)
            IN  IF ~f.entered
                THEN IF f.depth > HasPathDepth
                     THEN walk' = [walk EXCEPT !.stack = Pop(walk.stack)]
                     ELSE IF f.node = walk.user_id /\ f.depth > 0
                     THEN walk' = [walk EXCEPT !.stack = << >>,
                                               !.found = TRUE]
                     ELSE walk' = [walk EXCEPT
                              !.stack[Len(walk.stack)] =
                                  [f EXCEPT !.entered = TRUE,
                                            !.todo = LinkAdj(links, f.node)]]
                ELSE IF f.todo = {}
                THEN walk' = [walk EXCEPT !.stack = Pop(walk.stack)]
                ELSE \E neighbor \in f.todo :
                        LET advanced == [walk.stack EXCEPT
                                ![Len(walk.stack)].todo = f.todo \ {neighbor}]
                        IN  IF neighbor \notin f.visited
                               \/ neighbor = walk.user_id
                            THEN walk' = [walk EXCEPT !.stack =
                                    Append(advanced,
                                           PathFrame(neighbor,
                                                f.visited \cup {neighbor},
                                                f.depth + 1))]
                            ELSE walk' = [walk EXCEPT !.stack = advanced]
    /\ WalkFrame

-----------------------------------------------------------------------------
(* Initial ledgers *)

Account(status, balance, risk_score) ==
    [status |-> status, balance |-> balance, risk_score |-> risk_score]

\* A row as seed_mock_data.py inserts one for a flagged persona.
SeedRow(n, source_user_id, target_user_id, amount) ==
    [transaction_id |-> n, source_user_id |-> source_user_id,
     target_user_id |-> target_user_id, amount |-> amount, timestamp |-> 0,
     status |-> "FLAGGED", is_suspicious |-> 1, ai_risk_score |-> 8800]

\* Two accounts on an empty ledger, the sender with a low balance.
LowBalanceLedger ==
    [users |-> [u \in {"A", "B"} |->
                   IF u = "A" THEN Account("ACTIVE", 1000, 5000)
                   ELSE Account("ACTIVE", 0, 5000)],
     transactions |-> << >>]

\* A high-risk sender with two transfers of 9500 already in the window.
StructuringLedger ==
    [users |-> [u \in {"A", "B"} |->
                   IF u = "A" THEN Account("ACTIVE", 100000, 9000)
                   ELSE Account("ACTIVE", 1000, 5000)],
     transactions |-> [n \in 1..2 |-> SeedRow(n, "A", "B", 9500)]]

\* A sender with more than ten transfers already in the window.
VelocityLedger ==
    [users |-> [u \in {"A", "B"} |->
                   IF u = "A" THEN Account("ACTIVE", 100000, 5000)
                   ELSE Account("ACTIVE", 1000, 5000)],
     transactions |-> [n \in 1..(VelocityLimit + 1) |->
                          SeedRow(n, "A", "B", 600)]]

Ledgers == {LowBalanceLedger, StructuringLedger, VelocityLedger}

\* Ledgers of four accounts with any selection of CandidateEdges as their
\* transactions: a chain A - B - C - D, an edge closing it, a self-transfer
\* and a second transfer between the same two accounts.
GraphIds == {"A", "B", "C", "D"}

CandidateEdges ==
    <<  <<"A", "B">>, <<"C", "B">>, <<"C", "D">>, <<"D", "A">>, <<"B", "B">>,
        <<"A", "B">>  >>

RECURSIVE RowsOf(_, _)
RowsOf(picked, k) ==
    IF k = 0 THEN << >>
    ELSE LET rest == RowsOf(picked, k - 1)
         IN  IF k \in picked
             THEN Append(rest, SeedRow(Len(rest) + 1, CandidateEdges[k][1],
                                       CandidateEdges[k][2], 600))
             ELSE rest

GraphLedgers ==
    {[users |-> [u \in GraphIds |-> Account("ACTIVE", 1000, 5000)],
      transactions |-> RowsOf(picked, Len(CandidateEdges))] :
        picked \in SUBSET (1..Len(CandidateEdges))}

\* Ledgers of four accounts with any selection of RingEdges as their
\* transactions: a cycle of three and a cycle of four accounts sharing their
\* first edges, a transfer back and forth, a second transfer between the
\* same pair and a self-transfer; and a ledger of seven accounts in a cycle.
RingEdges ==
    <<  <<"A", "B">>, <<"B", "C">>, <<"C", "A">>, <<"C", "D">>, <<"D", "A">>,
        <<"B", "A">>, <<"A", "B">>, <<"A", "A">>  >>

SevenIds == <<"A", "B", "C", "D", "E", "F", "G">>

RECURSIVE EdgeRows(_, _, _)
EdgeRows(edges, picked, k) ==
    IF k = 0 THEN << >>
    ELSE LET rest == EdgeRows(edges, picked, k - 1)
         IN  IF k \in picked
             THEN Append(rest, SeedRow(Len(rest) + 1, edges[k][1],
                                       edges[k][2], 600))
             ELSE rest

SevenRingLedger ==
    [users |-> [u \in SeqToSet(SevenIds) |-> Account("ACTIVE", 1000, 5000)],
     transactions |->
        EdgeRows([k \in 1..Len(SevenIds) |->
                     <<SevenIds[k], SevenIds[(k % Len(SevenIds)) + 1]>>],
                 1..Len(SevenIds), Len(SevenIds))]

\* Ten accounts in layers: "A" has sent to each account of the first layer,
\* each account of a layer to each account of the next, and each account of
\* the last layer to "A".  More than RingLimit account sets carry a cycle.
LayerIds == <<"A", "B", "C", "D", "E", "F", "G", "H", "I", "J">>

LayeredEdges ==
    LET w == 3
        Id(n) == LayerIds[n]
    IN  [k \in 1..(2 * w + 2 * w * w) |->
            IF k <= w THEN <<Id(1), Id(1 + k)>>
            ELSE IF k <= w + 2 * w * w
            THEN LET m == k - w - 1
                     layer == m \div (w * w)
                     i == (m % (w * w)) \div w
                     j == m % w
                 IN  <<Id(2 + w * layer + i), Id(2 + w * (layer + 1) + j)>>
            ELSE <<Id(1 + 2 * w + (k - w - 2 * w * w)), Id(1)>>]

LayeredLedger ==
    LET edges == LayeredEdges
    IN  [users |-> [u \in SeqToSet(LayerIds) |-> Account("ACTIVE", 1000, 5000)],
         transactions |-> EdgeRows(edges, 1..Len(edges), Len(edges))]

RingLedgers ==
    {[users |-> [u \in GraphIds |-> Account("ACTIVE", 1000, 5000)],
      transactions |-> EdgeRows(RingEdges, picked, Len(RingEdges))] :
        picked \in SUBSET (1..Len(RingEdges))}
    \cup {SevenRingLedger, LayeredLedger}

\* The first n accounts of SevenIds in a cycle of transfers; with hub, an
\* account "X" that has sent to each of them, so that every account of the
\* cycle is within two hops of every other.
CycleLedger(n, hub) ==
    LET ids == SubSeq(SevenIds, 1, n)
        edges == [k \in 1..(IF hub THEN 2 * n ELSE n) |->
                     IF k <= n THEN <<ids[k], ids[(k % n) + 1]>>
                     ELSE <<"X", ids[k - n]>>]
    IN  [users |-> [u \in SeqToSet(ids) \cup (IF hub THEN {"X"} ELSE {}) |->
                       Account("ACTIVE", 1000, 5000)],
         transactions |-> EdgeRows(edges, 1..Len(edges), Len(edges))]

FlowLedgers ==
    RingLedgers
    \cup {CycleLedger(n, hub) : n \in 1..Len(SevenIds), hub \in BOOLEAN}

\* Depths a network request may carry: both sides of the accepted range.
Depths == (DepthMin - 2)..(DepthMax + 1)

\* The server starts on one of ledgers, in a time zone of offsets.
StartWith(ledgers, offsets) ==
    /\ \E ledger \in ledgers :
          /\ users = ledger.users
          /\ transactions = ledger.transactions
          /\ seed = ledger
    /\ now = 0
    /\ calls = [p \in Procs |-> IdleCall]
    /\ ncalls = 0
    /\ nadmin = 0
    /\ appeals = << >>
    /\ nappeal = 0
    /\ reply = NoReply
    /\ walk = NoWalk
    /\ utc_offset \in offsets

\* A server whose local time is UTC.
StartFrom(ledgers) == StartWith(ledgers, {0})

InitGraph == StartFrom(GraphLedgers)

InitRings == StartFrom(RingLedgers)

Init ==
    /\ \E ledger \in Ledgers :
          /\ users = ledger.users
          /\ transactions = ledger.transactions
          /\ seed = ledger
    /\ now = 0
    /\ calls = [p \in Procs |-> IdleCall]
    /\ ncalls = 0
    /\ nadmin = 0
    /\ appeals = << >>
    /\ nappeal = 0
    /\ reply = NoReply
    /\ walk = NoWalk
    /\ utc_offset = 0

-----------------------------------------------------------------------------
(* Specifications *)

\* One statement of a create_transaction call of thread p, the amount of a
\* new request taken from amounts.
CallStepFrom(p, amounts) ==
    \/ \E route \in Routes, amount \in amounts :
            Begin(p, route[1], route[2], amount)
    \/ GetSource(p)
    \/ GetTarget(p)
    \/ PreCheck(p)
    \/ DetectStructuring(p)
    \/ DetectVelocity(p)
    \/ Freeze(p)
    \/ AddCount(p)
    \/ AddInsert(p)
    \/ UpdateBalances(p)
    \/ Respond(p)

CallStep(p) == CallStepFrom(p, Amounts)

AdminStep ==
    \/ \E transaction_id \in TransactionIds :
          approve_transaction(transaction_id)
    \/ \E user_id \in UserIds : freeze_user(user_id)
    \/ \E user_id \in UserIds : unfreeze_user(user_id)
    \/ \E user_id \in UserIds : block_user(user_id)

\* The server: request threads interleave statement by statement.
AppealStep ==
    \E user_id \in UserIds :
        \/ submit_appeal(user_id)
        \/ approve_appeal(user_id)
        \/ reject_appeal(user_id)

QueryStep ==
    \E user_id \in UserIds \cup GraphIds, depth \in Depths :
        get_user_network(user_id, depth)

Next ==
    \/ \E p \in Procs : CallStep(p)
    \/ AdminStep
    \/ AppealStep
    \/ QueryStep
    \/ get_laundering_rings
    \/ Tick

Spec == Init /\ [][Next]_vars

\* Only create_transaction requests, interleaved.
NextTx == \E p \in Procs : CallStep(p)

SpecTx == Init /\ [][NextTx]_vars

\* One request at a time: a request starts only when no other is running.
Quiet == \A p \in Procs : Finished(calls[p])
Alone(p) == \A q \in Procs \ {p} : Finished(calls[q])

NextSeq ==
    \/ \E p \in Procs : Alone(p) /\ CallStep(p)
    \/ Quiet /\ AdminStep
    \/ Tick

SpecSeq == Init /\ [][NextSeq]_vars

\* One create_transaction request at a time, with any number as amount
\* (TransactionCreate.amount is a float without a constraint).
CallStepAnyAmount(p) == CallStepFrom(p, Amounts \cup NonPositiveAmounts)

NextAnyAmount == \E p \in Procs : Alone(p) /\ CallStepAnyAmount(p)

SpecAnyAmount == Init /\ [][NextAnyAmount]_vars

\* The appeal endpoints with the admin requests that freeze and block.
NextAppeal ==
    \/ AppealStep
    \/ \E user_id \in UserIds : freeze_user(user_id) \/ block_user(user_id)
    \/ Tick

SpecAppeal == Init /\ [][NextAppeal]_vars

\* The network endpoint on the ledgers of GraphLedgers.
SpecGraph == InitGraph /\ [][QueryStep]_vars

\* The traversals on the ledgers of RingLedgers.  A traversal runs in the
\* thread of the request that called it, and the thread keeps running until
\* the call returns: its next statement is eventually executed.
WalkStep == StepSubgraph \/ StepRings \/ StepHasPath

BeginWalk ==
    \/ \E user_id \in DOMAIN users, depth \in DepthMin..DepthMax :
            BeginSubgraph(user_id, depth)
    \/ BeginRings
    \/ \E user_id \in DOMAIN users : BeginHasPath(user_id)

NextWalk == BeginWalk \/ WalkStep

SpecWalk == InitRings /\ [][NextWalk]_vars /\ WF_vars(WalkStep)

\* The scorer endpoint between admin requests and clock ticks, on the
\* ledgers of Ledgers and RingLedgers.
InitScore == StartFrom(Ledgers \cup RingLedgers)

ScoreStep == \E user_id \in DOMAIN users \cup UserIds :
                 detect_fraud_endpoint(user_id)

NextScore == ScoreStep \/ AdminStep \/ Tick

SpecScore == InitScore /\ [][NextScore]_vars

\* The scorer alone, on the ledgers of FlowLedgers.
InitFlow == StartFrom(FlowLedgers)

SpecFlow == InitFlow /\ [][ScoreStep]_vars

\* The ring endpoint on the ledgers of FlowLedgers.
SpecRingsFlow == InitFlow /\ [][get_laundering_rings]_vars

\* User creation between admin requests.
CreateStep == \E user_id \in UserIds, risk_score \in NewRiskScores :
                  create_user(user_id, risk_score)

NextUsers == CreateStep \/ AdminStep

SpecUsers == Init /\ [][NextUsers]_vars

\* The ring endpoint on the ledgers of RingLedgers.
SpecRings == InitRings /\ [][get_laundering_rings]_vars

\* The server's clock.  Rows are stamped with the local time and the window
\* query reads the UTC time, so the time zone of the server is part of the
\* state; the zones are those of New York in winter, UTC and Tunis in
\* summer time.
UtcOffsets == {-5, 0, 2}
ClockSteps == {20, 25}

\* Time passes between requests, by one of ClockSteps hours.
Advance(hours) ==
    /\ Quiet
    /\ now + hours <= ClockEnd
    /\ now' = now + hours
    /\ UNCHANGED <<users, transactions, calls, ncalls, nadmin, seed,
                   appeals, nappeal, reply, walk, utc_offset>>

InitClock == StartWith(Ledgers, UtcOffsets)

\* One create_transaction request at a time on a server in any of the
\* time zones, with time passing between the requests.
NextClock ==
    \/ \E p \in Procs : Alone(p) /\ CallStep(p)
    \/ \E hours \in ClockSteps : Advance(hours)

SpecClock == InitClock /\ [][NextClock]_vars

-----------------------------------------------------------------------------
(* Vocabulary of the properties *)

\* Thread p executes a statement of its call in this step.
StepOf(p) == calls'[p] # calls[p]

\* Every balance is left as it is.
BalancesUnchanged ==
    /\ DOMAIN users' = DOMAIN users
    /\ \A u \in DOMAIN users : users'[u].balance = users[u].balance

\* Rows of the ledger written by create_transaction since the start.
NewRows == (Len(seed.transactions) + 1)..Len(transactions)

RECURSIVE SumAmounts(_)
SumAmounts(rows) ==
    IF rows = {} THEN 0
    ELSE LET i == CHOOSE j \in rows : TRUE
         IN  transactions[i].amount + SumAmounts(rows \ {i})

ApprovedSent(rows, u) ==
    SumAmounts({i \in rows : /\ transactions[i].status = "APPROVED"
                             /\ transactions[i].source_user_id = u})

ApprovedReceived(rows, u) ==
    SumAmounts({i \in rows : /\ transactions[i].status = "APPROVED"
                             /\ transactions[i].target_user_id = u})

NoSelfTransfer(rows) ==
    \A i \in rows : transactions[i].source_user_id
                        # transactions[i].target_user_id

NoCallRunning == \A p \in Procs : calls[p].pc \in {"idle", "done"}

-----------------------------------------------------------------------------
(* C1 *)

\* C1: a create_transaction call that runs alone and ends APPROVED for
\* amount A from X to a different Y leaves X with its balance minus A, Y with
\* its balance plus A, and every other balance as it was.  Under SpecSeq no
\* other request runs during the call; no statement of the call before the
\* last touches a balance, and the last moves exactly A from X to Y.
C1_BalanceConservation ==
    [][\A p \in Procs :
          LET c == calls[p]
          IN  /\ (StepOf(p) /\ c.pc # "balance") => BalancesUnchanged
              /\ (StepOf(p) /\ calls'[p].pc = "done" /\ c.status = "APPROVED"
                    /\ calls'[p].outcome = "OK"
                    /\ c.source_user_id # c.target_user_id)
                 => /\ DOMAIN users' = DOMAIN users
                    /\ users'[c.source_user_id].balance
                          = users[c.source_user_id].balance - c.amount
                    /\ users'[c.target_user_id].balance
                          = users[c.target_user_id].balance + c.amount
                    /\ \A u \in DOMAIN users \ {c.source_user_id,
                                                c.target_user_id} :
                          users'[u].balance = users[u].balance
      ]_vars

\* An APPROVED transfer between two accounts has returned.
C1_Witness ==
    \E p \in Procs :
        /\ calls[p].pc = "done"
        /\ calls[p].outcome = "OK"
        /\ calls[p].status = "APPROVED"
        /\ calls[p].source_user_id # calls[p].target_user_id
        /\ users[calls[p].source_user_id].balance
              = seed.users[calls[p].source_user_id].balance - calls[p].amount

-----------------------------------------------------------------------------
(* C2, C3 *)

\* C2: with create_transaction calls interleaved, once every call has
\* returned the balance of every account is its initial balance minus the
\* APPROVED amounts it sent plus the APPROVED amounts it received
\* (self-transfers set aside).
C2_NoLostUpdate ==
    (NoCallRunning /\ NoSelfTransfer(NewRows)) =>
        \A u \in DOMAIN users :
            users[u].balance = seed.users[u].balance
                                 - ApprovedSent(NewRows, u)
                                 + ApprovedReceived(NewRows, u)

\* C3: the APPROVED amounts an account sent never exceed the funds it held,
\* its initial balance plus the APPROVED amounts it received (self-transfers
\* set aside).
C3_NoOverspend ==
    NoSelfTransfer(NewRows) =>
        \A u \in DOMAIN users :
            ApprovedSent(NewRows, u)
                <= seed.users[u].balance + ApprovedReceived(NewRows, u)

-----------------------------------------------------------------------------
(* C4, C5 *)

\* The call has passed the account, frozen and balance checks and has
\* evaluated the policy engine.
Decided(c) ==
    c.pc \in {"freeze", "add_count", "add_insert", "balance"}
    \/ (c.pc = "done" /\ c.outcome \in {"OK", "InternalError"})

\* C4: for a call that passed the account, frozen and balance checks the
\* status is BLOCKED if structuring was detected, else FLAGGED if structuring
\* or high velocity was detected or the amount is in [9000,9999] or above
\* 50000 or the AI risk score is above 0.7, else APPROVED; and the row the
\* call inserts carries that status.
C4_StatusDecision ==
    [][\A p \in Procs :
          LET c == calls'[p]
              flag == \/ c.structuring_detected
                      \/ c.high_velocity
                      \/ (c.amount >= 9000 /\ c.amount <= 9999)
                      \/ c.amount > 50000
                      \/ c.ai_risk_score > 7000
              expected == IF c.structuring_detected THEN "BLOCKED"
                          ELSE IF flag THEN "FLAGGED"
                          ELSE "APPROVED"
          IN  /\ Decided(c) => c.status = expected
              /\ (StepOf(p) /\ calls[p].pc = "add_insert"
                    /\ Len(transactions') = Len(transactions) + 1)
                 => transactions'[Len(transactions')].status = expected
      ]_vars

\* One call recorded BLOCKED and another recorded FLAGGED without any
\* structuring.
C4_Witness ==
    \E p \in Procs, q \in Procs :
        /\ calls[p].pc = "done" /\ calls[p].outcome = "OK"
        /\ calls[p].status = "BLOCKED"
        /\ calls[q].pc = "done" /\ calls[q].outcome = "OK"
        /\ calls[q].status = "FLAGGED"
        /\ ~calls[q].structuring_detected

\* C5: when create_transaction detects structuring the transaction is
\* recorded BLOCKED and the source account becomes FROZEN, and
\* create_transaction freezes an account in no other case.
C5_StructuringBlocksAndFreezes ==
    [][\A p \in Procs :
          LET c == calls[p]
          IN  /\ (StepOf(p) /\ calls'[p].pc = "done" /\ c.structuring_detected)
                 => /\ calls'[p].outcome = "OK"
                    /\ \E i \in 1..Len(transactions') :
                          /\ transactions'[i].transaction_id = calls'[p].tx_id
                          /\ transactions'[i].source_user_id = c.source_user_id
                          /\ transactions'[i].status = "BLOCKED"
              /\ (StepOf(p) /\ c.pc = "freeze")
                 => users'[c.source_user_id].status = "FROZEN"
              /\ (StepOf(p) /\ \E u \in DOMAIN users :
                                  /\ users[u].status # "FROZEN"
                                  /\ users'[u].status = "FROZEN")
                 => c.structuring_detected
      ]_vars

-----------------------------------------------------------------------------
(* C6, C7, C8 *)

LedgerUnchanged == users' = users /\ transactions' = transactions

\* The source row read at submission is FROZEN.
FrozenAtSubmission(c) == Found(c.source_user) /\ c.source_user.status = "FROZEN"

\* C6: a call whose source row is FROZEN at submission (both accounts
\* existing) ends with InvalidState, and no statement of it changes a
\* transaction, a balance or an account status.
C6_FrozenSourceRejected ==
    [][\A p \in Procs :
          /\ (StepOf(p) /\ (FrozenAtSubmission(calls[p])
                            \/ FrozenAtSubmission(calls'[p])))
             => LedgerUnchanged
          /\ (StepOf(p) /\ calls[p].pc = "get_target"
                /\ FrozenAtSubmission(calls[p])
                /\ Found(get_user_by_id(calls[p].target_user_id)))
             => /\ calls'[p].pc = "done"
                /\ calls'[p].outcome = "InvalidState"
      ]_vars

\* A call from a FROZEN source has been rejected with InvalidState.
C6_Witness ==
    \E p \in Procs :
        /\ calls[p].pc = "done"
        /\ calls[p].outcome = "InvalidState"
        /\ FrozenAtSubmission(calls[p])
        /\ Found(calls[p].target_user)

\* The source row read at submission holds less than the amount.
ShortAtSubmission(c) ==
    /\ Found(c.source_user)
    /\ c.source_user.status # "FROZEN"
    /\ c.source_user.balance < c.amount

\* C7: a call whose source row holds less than the amount (both accounts
\* existing, the source not FROZEN) ends with InsufficientFunds, and no
\* statement of it changes a transaction, a balance or an account status.
C7_InsufficientFundsRejected ==
    [][\A p \in Procs :
          /\ (StepOf(p) /\ (ShortAtSubmission(calls[p])
                            \/ ShortAtSubmission(calls'[p])))
             => LedgerUnchanged
          /\ (StepOf(p) /\ calls[p].pc = "get_target"
                /\ ShortAtSubmission(calls[p])
                /\ Found(get_user_by_id(calls[p].target_user_id)))
             => /\ calls'[p].pc = "done"
                /\ calls'[p].outcome = "InsufficientFunds"
      ]_vars

\* A call for more than the source holds has been rejected.
C7_Witness ==
    \E p \in Procs :
        /\ calls[p].pc = "done"
        /\ calls[p].outcome = "InsufficientFunds"
        /\ ShortAtSubmission(calls[p])
        /\ Found(calls[p].target_user)

\* An ACTIVE source with balance 1000 sends 50000 to an existing account.
Scenario8(c) ==
    /\ c.amount = 50000
    /\ Found(c.source_user)
    /\ c.source_user.status = "ACTIVE"
    /\ c.source_user.balance = 1000
    /\ Found(c.target_user)

\* C8 as stated: an ACTIVE account with balance 1000 sending 50000 to an
\* existing account has the transaction recorded FLAGGED, balances unchanged.
C8_RecordedFlagged ==
    \A p \in Procs :
        (calls[p].pc = "done" /\ Scenario8(calls[p]))
        => /\ calls[p].outcome = "OK"
           /\ calls[p].status = "FLAGGED"
           /\ \E i \in 1..Len(transactions) :
                 /\ transactions[i].transaction_id = calls[p].tx_id
                 /\ transactions[i].status = "FLAGGED"

\* C8 amended: an ACTIVE account with balance 1000 sending 50000 to an
\* existing account is rejected with InsufficientFunds; no statement of the
\* call writes a transaction or changes a balance or a status.
C8_RejectedForFunds ==
    [][\A p \in Procs :
          /\ (StepOf(p) /\ calls'[p].pc = "done" /\ Scenario8(calls'[p]))
             => calls'[p].outcome = "InsufficientFunds"
          /\ (StepOf(p) /\ calls[p].amount = 50000
                /\ calls[p].source_user.status = "ACTIVE"
                /\ calls[p].source_user.balance = 1000)
             => LedgerUnchanged
      ]_vars

\* The call of the scenario has returned.
C8_Witness ==
    \E p \in Procs :
        /\ calls[p].pc = "done"
        /\ Scenario8(calls[p])
        /\ calls[p].outcome = "InsufficientFunds"
        /\ users = seed.users
        /\ transactions = seed.transactions

-----------------------------------------------------------------------------
(* C9, C10 *)

\* C9 as stated: the status of a row, once written, is never changed.
C9_StatusWrittenOnce ==
    [][\A i \in 1..Len(transactions) :
          /\ Len(transactions') >= i
          /\ transactions'[i].status = transactions[i].status
      ]_vars

\* C9 amended: a row is never removed and an APPROVED row keeps its status;
\* the status of a FLAGGED or BLOCKED row changes only to APPROVED and only
\* by an admin approve-transaction request, never by create_transaction.
C9_StatusChangesOnlyByApproval ==
    [][\A i \in 1..Len(transactions) :
          /\ Len(transactions') >= i
          /\ transactions'[i].status # transactions[i].status
             => /\ transactions[i].status \in {"FLAGGED", "BLOCKED"}
                /\ transactions'[i].status = "APPROVED"
                /\ calls' = calls
                /\ nadmin' = nadmin + 1
      ]_vars

\* A row written FLAGGED or BLOCKED (suspicion flag 1) is now APPROVED.
C9_Witness ==
    \E i \in 1..Len(transactions) :
        /\ transactions[i].is_suspicious = 1
        /\ transactions[i].status = "APPROVED"

\* C10: whenever no call is running, the balances account for every
\* APPROVED row written by create_transaction: each has been debited from
\* its source and credited to its target (self-transfers set aside).
C10_ApprovedRowsSettled ==
    (NoCallRunning /\ NoSelfTransfer(NewRows)) =>
        \A u \in DOMAIN users :
            users[u].balance - seed.users[u].balance
                = ApprovedReceived(NewRows, u) - ApprovedSent(NewRows, u)

-----------------------------------------------------------------------------
(* C11, C12 *)

\* C11: the debit and the credit of an APPROVED transaction are committed
\* together: a step of a call either leaves every balance as it was or
\* commits both the balance it computed for the target and, when the source
\* is another account, the balance it computed for the source.
C11_DebitAndCreditTogether ==
    [][\A p \in Procs :
          LET c == calls[p]
          IN  StepOf(p) =>
                \/ BalancesUnchanged
                \/ /\ c.status = "APPROVED"
                   /\ users'[c.target_user_id].balance
                         = c.target_user.balance + c.amount
                   /\ c.source_user_id # c.target_user_id
                      => users'[c.source_user_id].balance
                            = c.source_user.balance - c.amount
                   /\ \A u \in DOMAIN users \ {c.source_user_id,
                                               c.target_user_id} :
                         users'[u].balance = users[u].balance
      ]_vars

\* A call has committed its debit and its credit.
C11_Witness ==
    \E p \in Procs :
        LET c == calls[p]
        IN  /\ c.pc = "done" /\ c.outcome = "OK" /\ c.status = "APPROVED"
            /\ c.source_user_id # c.target_user_id
            /\ users[c.source_user_id].balance = c.source_user.balance - c.amount
            /\ users[c.target_user_id].balance = c.target_user.balance + c.amount
            /\ users[c.target_user_id].balance
                  # seed.users[c.target_user_id].balance

\* C12: once an account's status is BLOCKED, no step changes it.
C12_BlockedIsAbsorbing ==
    [][\A u \in DOMAIN users :
          users[u].status = "BLOCKED" => users'[u].status = "BLOCKED"
      ]_vars

-----------------------------------------------------------------------------
(* C13 .. C17 *)

Pending(user_id) ==
    {i \in 1..Len(appeals) :
        appeals[i].user_id = user_id /\ appeals[i].status = "PENDING"}

\* The step is a request to the named appeal endpoint.
Served(op, user_id) ==
    /\ nappeal' = nappeal + 1
    /\ reply'.op = op
    /\ reply'.user_id = user_id

\* C13: each account has at most one appeal with status PENDING.
C13_AtMostOnePending ==
    \A user_id \in DOMAIN users : Cardinality(Pending(user_id)) <= 1

\* C14: approve_appeal for a FROZEN account with a PENDING appeal succeeds
\* and leaves the account ACTIVE and its pending appeals APPROVED with the
\* review timestamp set.
C14_ApprovalUnfreezes ==
    [][\A user_id \in DOMAIN users :
          (/\ Served("approve_appeal", user_id)
           /\ users[user_id].status = "FROZEN"
           /\ Pending(user_id) # {})
          => /\ reply'.outcome = "OK"
             /\ users'[user_id].status = "ACTIVE"
             /\ \A i \in Pending(user_id) :
                   /\ appeals'[i].status = "APPROVED"
                   /\ appeals'[i].reviewed_at # NULL
      ]_vars

\* C15: approve_appeal or reject_appeal for an account without a PENDING
\* appeal fails with InvalidState and changes neither an appeal nor the
\* account's status.
C15_NothingToResolve ==
    [][\A user_id \in DOMAIN users :
          (/\ Served("approve_appeal", user_id)
              \/ Served("reject_appeal", user_id)
           /\ Pending(user_id) = {})
          => /\ reply'.outcome = "InvalidState"
             /\ appeals' = appeals
             /\ users' = users
      ]_vars

\* C16: submit_appeal creates an appeal only for a FROZEN account; for an
\* ACTIVE or BLOCKED account it is rejected and creates no appeal.
C16_AppealOnlyWhileFrozen ==
    [][\A user_id \in DOMAIN users :
          Served("submit_appeal", user_id)
          => IF users[user_id].status = "FROZEN"
             THEN /\ reply'.outcome = "OK"
                  /\ appeals' = Append(appeals, appeals'[Len(appeals')])
                  /\ appeals'[Len(appeals')].user_id = user_id
                  /\ appeals'[Len(appeals')].status = "PENDING"
             ELSE /\ reply'.outcome # "OK"
                  /\ appeals' = appeals
      ]_vars

\* C17: reject_appeal for a FROZEN account with a PENDING appeal sets its
\* pending appeals to REJECTED with the review timestamp, touches no other
\* appeal, and leaves every account status and balance as it was.
C17_RejectionKeepsFrozen ==
    [][\A user_id \in DOMAIN users :
          (/\ Served("reject_appeal", user_id)
           /\ users[user_id].status = "FROZEN"
           /\ Pending(user_id) # {})
          => /\ reply'.outcome = "OK"
             /\ Len(appeals') = Len(appeals)
             /\ \A i \in 1..Len(appeals) :
                   IF i \in Pending(user_id)
                   THEN /\ appeals'[i].status = "REJECTED"
                        /\ appeals'[i].reviewed_at = now
                        /\ appeals'[i].reviewed_at # NULL
                        /\ appeals'[i].user_id = user_id
                   ELSE appeals'[i] = appeals[i]
             /\ users' = users
             /\ users'[user_id].status = "FROZEN"
      ]_vars

\* A FROZEN account's pending appeal has been rejected.
C17_Witness ==
    /\ reply.op = "reject_appeal"
    /\ reply.outcome = "OK"
    /\ reply.user_id \in DOMAIN users
    /\ users[reply.user_id].status = "FROZEN"
    /\ \E i \in 1..Len(appeals) :
          /\ appeals[i].user_id = reply.user_id
          /\ appeals[i].status = "REJECTED"
          /\ appeals[i].reviewed_at # NULL

-----------------------------------------------------------------------------
(* C18, C19, C20 *)

\* Every id a request may name.
AllIds == UserIds \cup GraphIds

\* Some transaction joins the two accounts, in either direction.
Adjacent(a, b) ==
    \E i \in 1..Len(transactions) :
        \/ /\ transactions[i].source_user_id = a
           /\ transactions[i].target_user_id = b
        \/ /\ transactions[i].source_user_id = b
           /\ transactions[i].target_user_id = a

\* The accounts at undirected hop distance at most d from u: the ends of the
\* walks of at most d transactions that start at u.
WithinHops(u, d) ==
    {v \in AllIds :
        \E n \in 0..d : \E hops \in [0..n -> AllIds] :
            /\ hops[0] = u
            /\ hops[n] = v
            /\ \A k \in 0..(n - 1) : Adjacent(hops[k], hops[k + 1])}

\* C18: on one ledger, for every focal account and every depth d >= 1, the
\* nodes of get_user_subgraph for depth d are among its nodes for depth d+1.
C18_NodesGrowWithDepth ==
    \A u \in AllIds, d \in 1..DepthMax :
        get_user_subgraph(u, d).nodes \subseteq get_user_subgraph(u, d + 1).nodes

\* A network request was answered with fewer accounts than one hop more
\* would give.
C18_Witness ==
    /\ reply.op = "get_user_network"
    /\ reply.outcome = "OK"
    /\ reply.depth >= 1
    /\ reply.nodes # get_user_subgraph(reply.user_id, reply.depth + 1).nodes
    /\ reply.nodes # {reply.user_id}

\* C19: for an existing focal account u and a depth d >= 1,
\* get_user_subgraph returns exactly the accounts at undirected hop distance
\* at most d from u and exactly the transactions with both ends among them,
\* each once.
C19_ExactNeighbourhood ==
    \A u \in DOMAIN users, d \in 1..DepthMax :
        LET subgraph == get_user_subgraph(u, d)
            inside == WithinHops(u, d)
            between == {i \in 1..Len(transactions) :
                           /\ transactions[i].source_user_id \in inside
                           /\ transactions[i].target_user_id \in inside}
        IN  /\ subgraph.outcome = "OK"
            /\ subgraph.nodes = inside
            /\ SeqToSet(subgraph.links) = between
            /\ Len(subgraph.links) = Cardinality(between)

\* A network request of depth 2 was answered with three of the four
\* accounts and with two transactions between the same pair of them.
C19_Witness ==
    /\ reply.op = "get_user_network"
    /\ reply.outcome = "OK"
    /\ reply.depth = 2
    /\ Cardinality(reply.nodes) = 3
    /\ \E i \in SeqToSet(reply.links), j \in SeqToSet(reply.links) :
          /\ i # j
          /\ transactions[i].source_user_id = transactions[j].source_user_id
          /\ transactions[i].target_user_id = transactions[j].target_user_id

\* C20 as stated: get_user_subgraph signals NotFound for a missing focal
\* account and InvalidArgument for a depth of 0 or less.
C20_SubgraphSignalsErrors ==
    \A u \in AllIds, d \in Depths :
        /\ u \notin DOMAIN users
           => get_user_subgraph(u, d).outcome = "NotFound"
        /\ (u \in DOMAIN users /\ d <= 0)
           => get_user_subgraph(u, d).outcome = "InvalidArgument"

\* C20 amended: the errors are signalled by the network endpoint, which
\* answers InvalidArgument for a depth outside DepthMin..DepthMax, else
\* NotFound for a missing account, else what get_user_subgraph returns;
\* get_user_subgraph itself signals nothing: for a missing account it
\* returns no node, and for a depth of 0 or less the focal account alone.
C20_EndpointSignalsErrors ==
    /\ (reply.op = "get_user_network" /\ reply.depth \notin DepthMin..DepthMax)
       => reply.outcome = "InvalidArgument"
    /\ (reply.op = "get_user_network" /\ reply.depth \in DepthMin..DepthMax
          /\ reply.user_id \notin DOMAIN users)
       => reply.outcome = "NotFound"
    /\ (reply.op = "get_user_network" /\ reply.depth \in DepthMin..DepthMax
          /\ reply.user_id \in DOMAIN users)
       => /\ reply.outcome = "OK"
          /\ reply.nodes = get_user_subgraph(reply.user_id, reply.depth).nodes
          /\ reply.links = get_user_subgraph(reply.user_id, reply.depth).links
    /\ \A u \in AllIds, d \in Depths :
          /\ get_user_subgraph(u, d).outcome = "OK"
          /\ u \notin DOMAIN users => get_user_subgraph(u, d).nodes = {}
          /\ (u \in DOMAIN users /\ d <= 0)
             => get_user_subgraph(u, d).nodes = {u}

\* The endpoint has refused a request for a missing account.
C20_Witness ==
    /\ reply.op = "get_user_network"
    /\ reply.user_id \notin DOMAIN users
    /\ reply.depth \in DepthMin..DepthMax
    /\ reply.outcome = "NotFound"

-----------------------------------------------------------------------------
(* Ring detection *)

\* The rings of the last reply of the ring endpoint.
ReturnedRings == IF reply.op = "get_laundering_rings" THEN reply.rings ELSE << >>

\* A transaction leads from a to b.
Sent(a, b) ==
    \E n \in 1..Len(transactions) :
        /\ transactions[n].source_user_id = a
        /\ transactions[n].target_user_id = b

\* C21: every returned ring is a simple directed cycle of the ledger: its
\* path has at least 3 accounts, no account appears twice, each consecutive
\* pair is joined by a transaction from the earlier to the later account, and
\* a transaction leads from the last account back to the first.
C21_RingsAreSimpleCycles ==
    \A r \in 1..Len(ReturnedRings) :
        LET path == ReturnedRings[r]
        IN  /\ Len(path) >= 3
            /\ \A i, j \in 1..Len(path) : path[i] = path[j] => i = j
            /\ \A i \in 1..(Len(path) - 1) : Sent(path[i], path[i + 1])
            /\ Sent(path[Len(path)], path[1])

\* A cycle of three and a cycle of four accounts were returned from a ledger
\* that also holds a transfer back and forth and a self-transfer.
C21_Witness ==
    /\ \E r \in 1..Len(ReturnedRings) : Len(ReturnedRings[r]) = 3
    /\ \E r \in 1..Len(ReturnedRings) : Len(ReturnedRings[r]) = 4
    /\ Sent("A", "B") /\ Sent("B", "A") /\ Sent("A", "A")

\* C22: at most 20 rings are returned, and every returned ring has at most 6
\* accounts.
C22_RingsBounded ==
    /\ Len(ReturnedRings) <= 20
    /\ \A r \in 1..Len(ReturnedRings) : Len(ReturnedRings[r]) <= 6

\* The discovered rings that no earlier discovered ring matches in its set
\* of accounts.
FirstOfItsSet(D) ==
    {k \in 1..Len(D) :
        \A j \in 1..(k - 1) : SeqToSet(D[j]) # SeqToSet(D[k])}

\* The place of a ring in the discovery order.
Discovery(D, ring) == CHOOSE k \in 1..Len(D) :
                          D[k] = ring /\ \A j \in 1..(k - 1) : D[j] # ring

\* C23: no two returned rings have the same set of accounts; each returned
\* ring is the first discovered ring of its set; the returned rings are in
\* discovery order; and a discovered ring has a returned ring of its set
\* unless 20 rings discovered earlier were returned.
C23_FirstOfEachSetInOrder ==
    reply.op = "get_laundering_rings" =>
        LET D == discovered_rings
            R == reply.rings
            sameSet(a, b) == SeqToSet(a) = SeqToSet(b)
        IN  /\ \A i, j \in 1..Len(R) : sameSet(R[i], R[j]) => i = j
            /\ \A i \in 1..Len(R) :
                    /\ \E k \in 1..Len(D) : D[k] = R[i]
                    /\ \A k \in 1..Len(D) :
                            sameSet(D[k], R[i]) => Discovery(D, R[i]) <= k
            /\ \A i, j \in 1..Len(R) :
                    i < j => Discovery(D, R[i]) < Discovery(D, R[j])
            /\ \A k \in 1..Len(D) :
                    \/ \E i \in 1..Len(R) : sameSet(D[k], R[i])
                    \/ /\ Len(R) = 20
                       /\ Discovery(D, R[20]) < k

\* More rings were discovered than returned: some matched an earlier one in
\* their accounts, and 20 distinct ones were returned.
C23_Witness ==
    /\ Len(ReturnedRings) = 20
    /\ Cardinality(FirstOfItsSet(discovered_rings)) > 20
    /\ Len(discovered_rings) > Cardinality(FirstOfItsSet(discovered_rings))
-----------------------------------------------------------------------------
(* Termination of the traversals *)

\* C24: get_user_subgraph, find_laundering_rings and the circular-flow search
\* of detect_fraud terminate on every ledger: a traversal that is running
\* eventually returns.
C24_TraversalsTerminate == (walk.pc = "running") ~> (walk.pc = "done")

\* The ring search has returned on a ledger that holds a cycle, a
\* self-transfer and two transactions between the same pair of accounts.
C24_Witness ==
    /\ walk.op = "find_laundering_rings" /\ walk.pc = "done"
    /\ walk.rings # << >>
    /\ Sent("A", "A")
    /\ \E m, n \in 1..Len(transactions) :
          /\ m # n
          /\ transactions[m].source_user_id = transactions[n].source_user_id
          /\ transactions[m].target_user_id = transactions[n].target_user_id

\* A traversal that has returned holds what the function it runs computes.
WalkResult ==
    walk.pc = "done" =>
        /\ walk.op = "get_user_subgraph"
              => walk.visited = SubgraphVisited(walk.user_id, walk.depth)
        /\ walk.op = "find_laundering_rings"
              => walk.rings = discovered_rings
        /\ walk.op = "has_path"
              => walk.found = circular_flow(walk.user_id)
-----------------------------------------------------------------------------
(* Scorer failure *)

\* C25: when the risk scorer fails during create_transaction the call does
\* not abort: it ends with the transaction recorded as APPROVED, FLAGGED or
\* BLOCKED, and the recorded ai_risk_score is the stored risk_score of the
\* source account.
C25_ScorerFailureStillRecords ==
    \A p \in Procs :
        LET c == calls[p]
        IN  (c.pc = "done" /\ c.scorer_failed)
            => /\ c.outcome = "OK"
               /\ \E i \in 1..Len(transactions) :
                     /\ transactions[i].transaction_id = c.tx_id
                     /\ transactions[i].source_user_id = c.source_user_id
                     /\ transactions[i].target_user_id = c.target_user_id
                     /\ transactions[i].amount = c.amount
                     /\ transactions[i].status \in
                            {"APPROVED", "FLAGGED", "BLOCKED"}
                     /\ transactions[i].ai_risk_score =
                            users[c.source_user_id].risk_score
-----------------------------------------------------------------------------
(* Determinism of the risk scorer *)

-----------------------------------------------------------------------------
(* Transaction identifiers *)

\* C27: every INSERT of add_transaction succeeds and gives the new record an
\* id that differs from every existing id and is later than all of them.
C27_IdsUniqueAndMonotone ==
    [][\A p \in Procs :
          (StepOf(p) /\ calls[p].pc = "add_insert")
          => /\ calls'[p].outcome # "InternalError"
             /\ Len(transactions') = Len(transactions) + 1
             /\ \A i \in 1..Len(transactions) :
                   transactions[i].transaction_id
                       < transactions'[Len(transactions')].transaction_id
      ]_vars
-----------------------------------------------------------------------------
(* Amounts *)

\* C28: every transaction record has a positive amount: a create_transaction
\* call with an amount of 0 or less changes no balance, no status and no
\* record, and is rejected, with InvalidArgument when both accounts exist.
C28_NonPositiveAmountRejected ==
    [][/\ \A i \in 1..Len(transactions') : transactions'[i].amount > 0
       /\ \A p \in Procs :
             (StepOf(p) /\ calls[p].pc # "idle" /\ calls[p].amount <= 0)
             => /\ LedgerUnchanged
                /\ calls'[p].pc = "done"
                   => /\ calls'[p].outcome # "OK"
                      /\ (/\ Found(get_user_by_id(calls[p].source_user_id))
                          /\ Found(get_user_by_id(calls[p].target_user_id)))
                         => calls'[p].outcome = "InvalidArgument"
      ]_vars

\* A transfer of a negative amount was recorded APPROVED and moved money
\* from the target to the source.
NegativeTransferSettled ==
    \E i \in 1..Len(transactions) :
        LET row == transactions[i]
        IN  /\ row.amount < 0
            /\ row.status = "APPROVED"
            /\ row.source_user_id # row.target_user_id
            /\ users[row.source_user_id].balance
                  > seed.users[row.source_user_id].balance
            /\ users[row.target_user_id].balance < 0
-----------------------------------------------------------------------------
(* Existing accounts and user creation *)

\* C29: adding a user with an id that already exists leaves that account in
\* place with its status and balance unchanged.
C29_ExistingAccountKept ==
    [][(reply'.op = "create_user" /\ reply'.seq # reply.seq)
        => \A u \in DOMAIN users :
              /\ u \in DOMAIN users'
              /\ users'[u].status = users[u].status
              /\ users'[u].balance = users[u].balance
      ]_vars

-----------------------------------------------------------------------------
(* Referenced accounts *)

\* The call of thread p names an account without a users row.
MissingAccount(c) ==
    c.source_user_id \notin DOMAIN users \/ c.target_user_id \notin DOMAIN users

\* C30: every record written by create_transaction names a source and a
\* target account that exist when it is written; a call naming a missing
\* account never gets past the lookups, writes no record, changes no balance
\* or status, and ends with NotFound.
C30_RecordsReferenceAccounts ==
    [][/\ Len(transactions') > Len(transactions)
          => LET row == transactions'[Len(transactions')]
             IN  /\ row.source_user_id \in DOMAIN users
                 /\ row.target_user_id \in DOMAIN users
       /\ \A p \in Procs :
             (StepOf(p) /\ calls[p].pc # "idle" /\ MissingAccount(calls[p]))
             => /\ LedgerUnchanged
                /\ calls'[p].pc \in {"get_target", "done", "idle"}
                /\ calls'[p].pc = "done" => calls'[p].outcome = "NotFound"
      ]_vars

\* A call naming a missing target has ended with NotFound, after another
\* call's record was written.
C30_Witness ==
    /\ \E p \in Procs :
          /\ calls[p].pc = "done"
          /\ calls[p].outcome = "NotFound"
          /\ calls[p].source_user_id \in DOMAIN users
          /\ calls[p].target_user_id \notin DOMAIN users
    /\ Len(transactions) > Len(seed.transactions)

-----------------------------------------------------------------------------
(* The detectors' time windows *)

\* The age in hours of table row i.
Age(i) == now - transactions[i].timestamp

\* The rows that involve user_id and are not older than hours.
TrailingWindow(user_id, hours) ==
    {i \in 1..Len(transactions) :
        /\ (transactions[i].source_user_id = user_id
            \/ transactions[i].target_user_id = user_id)
        /\ Age(i) >= 0
        /\ Age(i) <= hours}

\* The count the structuring rule is stated on: the rows of the trailing
\* 48 hours with an amount in the structuring range, plus the candidate.
StructuringCount(user_id, current_amount) ==
    Cardinality({i \in TrailingWindow(user_id, StructuringWindow) :
                    InStructuringRange(transactions[i].amount)})
        + (IF InStructuringRange(current_amount) THEN 1 ELSE 0)

\* C31: the structuring detector answers true exactly when the number of
\* the source's transactions of the trailing 48 hours with an amount from
\* 9000 to 9999, plus one for a candidate amount in that range, exceeds 2.
C31_StructuringExactlyAboveLimit ==
    [][\A p \in Procs :
          (StepOf(p) /\ calls[p].pc = "structuring")
              => (calls'[p].structuring_detected
                    = (StructuringCount(calls[p].source_user_id,
                                        calls[p].amount)
                          > StructuringLimit))]_vars

\* The same on a server whose local time is UTC.
C31_UtcServer ==
    [][\A p \in Procs :
          (StepOf(p) /\ calls[p].pc = "structuring" /\ utc_offset = 0)
              => (calls'[p].structuring_detected
                    = (StructuringCount(calls[p].source_user_id,
                                        calls[p].amount)
                          > StructuringLimit))]_vars

\* A third transfer in the structuring range, 45 hours after two others,
\* passed the detector on a server five hours behind UTC.
StructuringMissed ==
    \E p \in Procs :
        /\ calls[p].pc = "velocity"
        /\ ~calls[p].structuring_detected
        /\ StructuringCount(calls[p].source_user_id, calls[p].amount)
              > StructuringLimit

\* The call was flagged for high velocity and for nothing else.
VelocityOnly(c) ==
    /\ c.high_velocity
    /\ ~c.structuring_detected
    /\ ~InStructuringRange(c.amount)
    /\ ~(c.amount > LargeAmount)
    /\ ~(c.ai_risk_score > RiskThreshold)

\* The velocity detector's answer is the stated one: more than 10 recorded
\* transactions of the source in the trailing 24 hours.
VelocityAnswer(p) ==
    (StepOf(p) /\ calls[p].pc = "velocity")
        => (calls'[p].high_velocity
              = (Cardinality(TrailingWindow(calls[p].source_user_id,
                                            VelocityWindow))
                    > VelocityLimit))

\* A call flagged only for high velocity gets the status FLAGGED, writes no
\* account row and records its transaction as FLAGGED.
VelocityOnlyFlagged(p) ==
    /\ (StepOf(p) /\ calls[p].pc = "velocity" /\ VelocityOnly(calls'[p]))
          => /\ calls'[p].status = "FLAGGED"
             /\ calls'[p].pc # "freeze"
    /\ (StepOf(p) /\ VelocityOnly(calls[p]))
          => /\ users' = users
             /\ \A i \in (Len(transactions) + 1)..Len(transactions') :
                    transactions'[i].status = "FLAGGED"

\* C32: the velocity detector answers true exactly when the source has more
\* than 10 recorded transactions in the trailing 24 hours, the candidate not
\* counted, and a submission flagged only for high velocity is recorded
\* FLAGGED without freezing the account.
C32_VelocityExactlyAboveLimit ==
    [][\A p \in Procs : VelocityAnswer(p) /\ VelocityOnlyFlagged(p)]_vars

\* The same on a server whose local time is UTC.
C32_UtcServer ==
    [][utc_offset = 0
          => \A p \in Procs : VelocityAnswer(p) /\ VelocityOnlyFlagged(p)]_vars

\* The second half of C32 alone, in every time zone.
C32_FlaggedWithoutFreeze ==
    [][\A p \in Procs : VelocityOnlyFlagged(p)]_vars

\* An account with eleven transactions in the last 20 hours passed the
\* velocity detector on a server five hours behind UTC.
VelocityMissed ==
    \E p \in Procs :
        /\ calls[p].pc \in {"add_count", "freeze"}
        /\ ~calls[p].high_velocity
        /\ Cardinality(TrailingWindow(calls[p].source_user_id,
                                      VelocityWindow)) > VelocityLimit

\* A transaction flagged only for high velocity was recorded.
VelocityOnlyRecorded ==
    \E p \in Procs :
        /\ calls[p].pc = "done"
        /\ calls[p].outcome = "OK"
        /\ VelocityOnly(calls[p])

-----------------------------------------------------------------------------
(* The suspicion flag *)

\* The rows that the step appends to the table.
Inserted == (Len(transactions) + 1)..Len(transactions')

\* should_flag as lines 61-67 define it, from the values the call holds.
ShouldFlagHeld(c) ==
    ShouldFlag(c.structuring_detected, c.high_velocity, c.amount,
               c.ai_risk_score)

\* C33: every record written by create_transaction has the suspicion flag 1
\* if and only if should_flag held for it; so a record written with status
\* FLAGGED or BLOCKED has flag 1 and one written with APPROVED has flag 0.
C33_FlagIffShouldFlag ==
    [][\A p \in Procs :
          (StepOf(p) /\ calls[p].pc = "add_insert")
              => \A i \in Inserted :
                    LET row == transactions'[i]
                    IN  /\ (row.is_suspicious = 1) = ShouldFlagHeld(calls[p])
                        /\ row.is_suspicious \in {0, 1}
                        /\ row.status \in {"FLAGGED", "BLOCKED"}
                              => row.is_suspicious = 1
                        /\ row.status = "APPROVED"
                              => row.is_suspicious = 0]_vars

\* The requests have written a record with status APPROVED and flag 0 and
\* one with status FLAGGED or BLOCKED and flag 1.
C33_Witness ==
    \E i, j \in NewRows :
        /\ transactions[i].status = "APPROVED"
        /\ transactions[i].is_suspicious = 0
        /\ transactions[j].status \in {"FLAGGED", "BLOCKED"}
        /\ transactions[j].is_suspicious = 1

-----------------------------------------------------------------------------
(* Calls that end FLAGGED or BLOCKED *)

NotApproved(c) == c.status \in {"FLAGGED", "BLOCKED"}

\* C34: a create_transaction call that ends with status FLAGGED or BLOCKED
\* changes no account's balance, and the new_balance it reports is the
\* source's balance before the call: no statement of a call other than the
\* balance update changes a balance and only an APPROVED call reaches that
\* update; the source row the call holds is read by its first statement
\* from the table and kept to the end; and the response reports the
\* balance of that row.
C34_NotApprovedKeepsBalances ==
    [][\A p \in Procs :
          LET c == calls[p]
              r == calls'[p]
          IN  /\ (StepOf(p) /\ c.pc # "balance") => BalancesUnchanged
              /\ (StepOf(p) /\ c.pc = "balance") => ~NotApproved(c)
              /\ (StepOf(p) /\ c.pc = "get_source" /\ Found(r.source_user))
                    => r.source_user.balance
                          = users[c.source_user_id].balance
              /\ (StepOf(p) /\ c.pc \notin {"idle", "get_source", "done"})
                    => r.source_user = c.source_user
              /\ (StepOf(p) /\ r.pc = "done" /\ r.outcome = "OK"
                    /\ NotApproved(r))
                    => new_balance(r) = r.source_user.balance]_vars

\* A call has ended with FLAGGED or BLOCKED for a positive amount, and the
\* balance it reports is the one the source has.
C34_Witness ==
    \E p \in Procs :
        /\ calls[p].pc = "done"
        /\ calls[p].outcome = "OK"
        /\ NotApproved(calls[p])
        /\ calls[p].amount > 0
        /\ new_balance(calls[p]) = users[calls[p].source_user_id].balance
        /\ new_balance(calls[p]) # new_source_balance(calls[p])

-----------------------------------------------------------------------------
(* Circular flow *)

\* The accounts at which a directed walk of exactly k links of the set
\* links ends when it starts at one of from.
RECURSIVE WalkEnds(_, _, _)
WalkEnds(links, from, k) ==
    IF k = 0 THEN from
    ELSE LET before == WalkEnds(links, from, k - 1)
         IN  {transactions[n].target_user_id :
                 n \in {m \in links : transactions[m].source_user_id
                                          \in before}}

\* The links of the subgraph of depth 2 of user_id hold a directed closed
\* path of k links from user_id to user_id.
ClosedPath(user_id, k) ==
    user_id \in WalkEnds(SubgraphLinks(user_id, SubgraphDepth), {user_id}, k)

FlowAnswered(r) == r.op = "detect_fraud" /\ r.outcome = "OK"

\* C35: circular_flow is detected for an account exactly when the links of
\* its subgraph of depth 2 hold a directed closed path of 1 to 5 links that
\* starts and ends at the account.  circular_flow heads the order of
\* _get_primary_flag, so the answer names it exactly when it was detected.
C35_CircularFlowExactly ==
    [][(reply' # reply /\ FlowAnswered(reply'))
          => /\ (reply'.primary_flag = "Circular Flow Detected")
                   = circular_flow(reply'.user_id)
             /\ circular_flow(reply'.user_id)
                   = (\E k \in 1..HasPathDepth :
                         ClosedPath(reply'.user_id, k))]_vars

\* An answer names circular flow for an account whose shortest closed path
\* has 5 links, and the ledger holds an account whose only closed paths
\* within its subgraph have more than 5 links.
C35_Witness ==
    /\ FlowAnswered(reply)
    /\ reply.primary_flag = "Circular Flow Detected"
    /\ ClosedPath(reply.user_id, HasPathDepth)
    /\ \A k \in 1..(HasPathDepth - 1) : ~ClosedPath(reply.user_id, k)

\* An answer names no circular flow for an account on a closed path of 6
\* links that lies within its subgraph.
LongCycleNotFlagged ==
    /\ FlowAnswered(reply)
    /\ reply.primary_flag # "Circular Flow Detected"
    /\ ClosedPath(reply.user_id, HasPathDepth + 1)

-----------------------------------------------------------------------------
(* Completeness of the ring search *)

\* The accounts that a transaction names.
Parties ==
    {transactions[n].source_user_id : n \in 1..Len(transactions)}
    \cup {transactions[n].target_user_id : n \in 1..Len(transactions)}

\* The directed paths of k distinct accounts of the ledger.
RECURSIVE SimplePaths(_)
SimplePaths(k) ==
    IF k = 1 THEN {<<u>> : u \in Parties}
    ELSE LET shorter == SimplePaths(k - 1)
         IN  UNION {{Append(path, v) :
                        v \in {w \in Parties \ SeqToSet(path) :
                                  Sent(path[Len(path)], w)}} :
                    path \in shorter}

\* The simple directed cycles of k accounts.
Cycles(k) == {path \in SimplePaths(k) : Sent(path[Len(path)], path[1])}

\* The account sets of the rings that exist in the ledger.
ExistingRings ==
    UNION {{SeqToSet(path) : path \in Cycles(k)} :
              k \in MinRingPath..Cardinality(Parties)}

\* The first 50 start accounts of the adjacency map.
StartAccounts == SeqToSet(Take(AdjKeys(Len(transactions)), StartLimit))

\* C36: when fewer than 20 distinct rings exist, every simple directed cycle
\* of 3 to 6 accounts that passes through one of the first 50 start accounts
\* of the adjacency map has a ring with the same account set in the output
\* of find_laundering_rings.
C36_NoRingMissed ==
    (reply.op = "get_laundering_rings"
        /\ Cardinality(ExistingRings) < RingLimit)
        => \A k \in MinRingPath..MaxRingDepth :
              \A path \in Cycles(k) :
                  SeqToSet(path) \cap StartAccounts # {}
                      => \E r \in 1..Len(reply.rings) :
                            SeqToSet(reply.rings[r]) = SeqToSet(path)

\* The ring endpoint has answered on a ledger whose only ring is a cycle of
\* 6 accounts, and the answer holds it.
C36_Witness ==
    /\ reply.op = "get_laundering_rings"
    /\ Cardinality(ExistingRings) = 1
    /\ Cycles(MaxRingDepth) # {}
    /\ Len(reply.rings) = 1
    /\ Len(reply.rings[1]) = MaxRingDepth

-----------------------------------------------------------------------------
(* The sum of the balances *)

\* The sum of the balances of the accounts ids of the table us.
RECURSIVE SumBalances(_, _)
SumBalances(us, ids) ==
    IF ids = {} THEN 0
    ELSE LET u == CHOOSE v \in ids : TRUE
         IN  us[u].balance + SumBalances(us, ids \ {u})

TotalBalance(us) == SumBalances(us, DOMAIN us)

\* C37: every create_transaction call, whatever its outcome and also when
\* source and target are the same account, leaves the sum of all account
\* balances unchanged: no statement of a call changes the sum.
C37_TotalBalanceKept ==
    [][\A p \in Procs :
          StepOf(p) => TotalBalance(users') = TotalBalance(users)]_vars

\* The same for calls between two different accounts.
C37_BetweenTwoAccounts ==
    [][\A p \in Procs :
          (StepOf(p) /\ calls[p].source_user_id # calls[p].target_user_id)
              => TotalBalance(users') = TotalBalance(users)]_vars

\* A call from an account to itself has returned APPROVED and the accounts
\* hold more in sum than at the start, while no call is running.
SelfTransferMintsMoney ==
    /\ NoCallRunning
    /\ \E p \in Procs :
          /\ calls[p].pc = "done"
          /\ calls[p].outcome = "OK"
          /\ calls[p].status = "APPROVED"
          /\ calls[p].source_user_id = calls[p].target_user_id
    /\ TotalBalance(users) > TotalBalance(seed.users)

-----------------------------------------------------------------------------
(* A BLOCKED source *)

\* C38: FROZEN is the only account status for which create_transaction
\* rejects a submission.  A call ends with InvalidState only when the source
\* row it read is FROZEN; a call whose source row has any other status,
\* BLOCKED as well as ACTIVE, and whose target exists is rejected at the
\* checks exactly when the row holds less than the amount, and goes on to
\* the risk check otherwise.
C38_OnlyFrozenRejects ==
    [][\A p \in Procs :
          LET c == calls[p]
              r == calls'[p]
          IN  /\ (StepOf(p) /\ r.pc = "done" /\ r.outcome = "InvalidState")
                    => c.source_user.status = "FROZEN"
              /\ (StepOf(p) /\ c.pc = "get_target"
                    /\ Found(get_user_by_id(c.target_user_id))
                    /\ c.source_user.status \in {"ACTIVE", "BLOCKED"})
                    => IF c.source_user.balance < c.amount
                       THEN r.pc = "done" /\ r.outcome = "InsufficientFunds"
                       ELSE r.pc = "pre_check"]_vars

\* A call from an account that was BLOCKED when the call read it has been
\* recorded APPROVED, and the amount has left the account.
C38_Witness ==
    \E p \in Procs :
        LET c == calls[p]
        IN  /\ c.pc = "done"
            /\ c.outcome = "OK"
            /\ c.status = "APPROVED"
            /\ c.source_user.status = "BLOCKED"
            /\ c.source_user_id # c.target_user_id
            /\ users[c.source_user_id].status = "BLOCKED"
            /\ users[c.source_user_id].balance
                  = c.source_user.balance - c.amount
            /\ \E i \in NewRows :
                  /\ transactions[i].source_user_id = c.source_user_id
                  /\ transactions[i].status = "APPROVED"

-----------------------------------------------------------------------------
(* A frozen account and the calls in flight *)

\* The users row of the account is FROZEN now.
FrozenNow(user_id) ==
    Found(get_user_by_id(user_id)) /\ users[user_id].status = "FROZEN"

\* C39: while an account is FROZEN no transaction from it is recorded
\* APPROVED and its balance is not debited, in every interleaving: no
\* statement of a call from an account whose row is FROZEN inserts an
\* APPROVED row or lowers the balance of the account.
C39_FrozenAccountSendsNothing ==
    [][\A p \in Procs :
          LET c == calls[p]
          IN  (StepOf(p) /\ FrozenNow(c.source_user_id))
                => /\ \A i \in Inserted :
                         ~(/\ transactions'[i].source_user_id
                                 = c.source_user_id
                           /\ transactions'[i].status = "APPROVED")
                   /\ users'[c.source_user_id].balance
                         >= users[c.source_user_id].balance]_vars

\* An account is FROZEN and a call that read it before the freeze has
\* debited it for an APPROVED transaction.
DebitedWhileFrozen ==
    \E p \in Procs :
        LET c == calls[p]
        IN  /\ c.pc = "done" /\ c.outcome = "OK" /\ c.status = "APPROVED"
            /\ c.source_user_id # c.target_user_id
            /\ FrozenNow(c.source_user_id)
            /\ c.source_user.status = "ACTIVE"
            /\ users[c.source_user_id].balance
                  = c.source_user.balance - c.amount

-----------------------------------------------------------------------------
(* Balances stay non-negative *)

\* C40: starting from non-negative balances and with positive amounts, no
\* account's balance is negative in any reachable state, under any
\* interleaving of create_transaction calls.
C40_BalancesNonNegative ==
    \A u \in DOMAIN users : users[u].balance >= 0

\* Two interleaved calls have sent more from an account than it held, both
\* APPROVED for a positive amount, and every balance is still non-negative.
C40_Witness ==
    /\ NoCallRunning
    /\ \A u \in DOMAIN seed.users : seed.users[u].balance >= 0
    /\ \A i \in NewRows : transactions[i].amount > 0
    /\ \E u \in DOMAIN users :
          /\ ApprovedSent(NewRows, u)
                > seed.users[u].balance + ApprovedReceived(NewRows, u)
          /\ users[u].balance >= 0
          /\ users[u].balance < seed.users[u].balance


====
